---- MODULE Spec2Model ----
(***************************************************************************)
(* A model of the joint-based muscle rig of muscle_bone.py.                *)
(*                                                                         *)
(* The host scene (maya.cmds) is modelled as the set of existing nodes,    *)
(* their parents, their world positions, the point/aim constraints with    *)
(* their targets and offsets, and the driven-key curves of each output     *)
(* joint.  A MuscleJointGroup is its Python fields (grp) plus the nodes it *)
(* made.  Every method is one action; a method is a chain of scene         *)
(* commands over a world record, and a command that raises stops the       *)
(* chain and leaves what was done before it (no rollback).                 *)
(*                                                                         *)
(* Numbers: positions are integer triples; scales, driver values and       *)
(* factors are exact rationals <<n, d>> in lowest terms; math.sqrt is      *)
(* computed exactly on rationals that are squares.  Floating-point         *)
(* rounding is not modelled.                                               *)
(***************************************************************************)
EXTENDS Integers, Sequences, FiniteSets, TLC

VARIABLES scene, parent, cons, pos, curves, grp, last, snap, rb, ret, av, tp

vars == <<scene, parent, cons, pos, curves, grp, last, snap, rb, ret, av, tp>>
\* the muscle rig, and the limb of the twist chains with the last call on it
rigVars == <<scene, parent, cons, pos, curves, grp, last, snap>>
toolVars == <<rb, ret, av, tp>>

(***************************************************************************)
(* Bounds of the model.                                                    *)
(***************************************************************************)
\* edit() may be entered at most this many times per group
\* (ptConstraintsEdits grows by three names per entry).
MaxEdits == 2
\* largest integer whose square is searched by ISqrt
MaxRoot == 24
\* edit()-update() cycles counted back to back
MaxCycles == 2
\* largest twistJointCount a twist chain is built with
MaxTwist == 3

(***************************************************************************)
(* Exact arithmetic.                                                       *)
(***************************************************************************)
Abs(x) == IF x < 0 THEN -x ELSE x

RECURSIVE GCD(_, _)
GCD(a, b) == IF b = 0 THEN a ELSE GCD(b, a % b)

\* the rational n/d in lowest terms, d > 0
Rat(n, d) ==
    LET g == GCD(Abs(n), Abs(d))
        s == IF d < 0 THEN -1 ELSE 1
    IN  <<(s * n) \div g, (s * d) \div g>>

RInt(n) == <<n, 1>>
RMul(a, b) == Rat(a[1] * b[1], a[2] * b[2])
RInv(a) == Rat(a[2], a[1])
ROne == RInt(1)
RZero == RInt(0)

IsSquare(n) == \E r \in 0..MaxRoot : r * r = n
ISqrt(n) == CHOOSE r \in 0..MaxRoot : r * r = n

\* math.sqrt on a rational whose numerator and denominator are squares
RSqrt(a) == <<ISqrt(a[1]), ISqrt(a[2])>>

(***************************************************************************)
(* Vectors (om.MVector).                                                   *)
(***************************************************************************)
VSub(a, b) == <<a[1] - b[1], a[2] - b[2], a[3] - b[3]>>
VAdd(a, b) == <<a[1] + b[1], a[2] + b[2], a[3] + b[3]>>
VLenSq(a) == a[1] * a[1] + a[2] * a[2] + a[3] * a[3]
\* MVector.length(), exact where the squared length is a square
VLen(a) == ISqrt(VLenSq(a))
VZero == <<0, 0, 0>>

RECURSIVE VSum(_, _)
VSum(S, f) ==
    IF S = {} THEN VZero
    ELSE LET x == CHOOSE y \in S : TRUE
         IN  VAdd(f[x], VSum(S \ {x}, f))

VDivN(a, n) == <<a[1] \div n, a[2] \div n, a[3] \div n>>

(***************************************************************************)
(* Node names.  The node <<o, k, i>> is the scene node "o_k" when i = 0    *)
(* and "o_k<i>" otherwise: the host makes a requested name unique by       *)
(* appending the first free number.                                        *)
(***************************************************************************)
Groups == {"L", "R"}
Rig == "rig"
World == <<Rig, "world", 0>>
None == <<"", "None", 0>>

Node(o, k) == <<o, k, 0>>
muscleOrigin(g) == Node(g, "muscleOrigin")
muscleInsertion(g) == Node(g, "muscleInsertion")
muscleBase(g) == Node(g, "muscleBase")
muscleTip(g) == Node(g, "muscleTip")
muscleDriver(g) == Node(g, "muscleDriver")
muscleOffset(g) == Node(g, "muscleOffset")
muscleJoint(g) == Node(g, "JOmuscle")

\* the name the host gives a constraint made on obj
PointConstraintName(obj) == <<obj[1], obj[2] \o "_pointConstraint1", obj[3]>>
AimConstraintName(obj) == <<obj[1], obj[2] \o "_aimConstraint1", obj[3]>>
ParentConstraintName(obj) == <<obj[1], obj[2] \o "_parentConstraint1", obj[3]>>

\* the attach joints and blueprint nodes of the rig the groups are built on
AttachObjs == {Node(Rig, "JONeck1"), Node(Rig, "JOLeftClavicle1"),
               Node(Rig, "JORightClavicle1")}
BpNodes == {Node(Rig, "bpMuscle_muscleOrigin"), Node(Rig, "bpMuscle_muscleInsertion"),
            Node(Rig, "bpMuscle_muscleDriver")}
RigPos ==
    [n \in AttachObjs \cup BpNodes |->
        CASE n = Node(Rig, "JONeck1") -> <<0, 8, 2>>
          [] n = Node(Rig, "JOLeftClavicle1") -> <<6, 0, 2>>
          [] n = Node(Rig, "JORightClavicle1") -> <<-6, 0, 2>>
          [] n = Node(Rig, "bpMuscle_muscleOrigin") -> <<0, 0, 2>>
          [] n = Node(Rig, "bpMuscle_muscleInsertion") -> <<6, 0, 2>>
          [] OTHER -> <<4, 4, 2>>]
\* a name no node has (a deleted or mistyped object)
Missing == Node(Rig, "missing")

(***************************************************************************)
(* The world a method runs on: the scene, the Python fields of the groups  *)
(* and the exception raised so far ("none" while running).                 *)
(***************************************************************************)
Ok(w) == w.err = "none"
Raise(w, e) == [w EXCEPT !.err = e]

\* the statements of a method run one after the other, each on the world
\* the statements before it have left: {S2(y) : y \in {S1(x) : x \in {w}}}
\* is S1 followed by S2 (the innermost statement runs first), and Result
\* takes the world they leave
Result(S) == CHOOSE x \in S : TRUE

\* an assignment to a field of self (not reached once an exception is raised)
Assign(w, g, field, v) == IF Ok(w) THEN [w EXCEPT !.grp[g][field] = v] ELSE w


\* mc.objExists
objExists(w, n) == n \in w.scene

\* first free name for a requested name
UniqueName(w, o, k) ==
    <<o, k, CHOOSE i \in 0..(3 * MaxEdits) :
                /\ <<o, k, i>> \notin w.scene
                /\ \A j \in 0..(i - 1) : <<o, k, j>> \in w.scene>>

\* a new transform node at world position at, under parent p
CreateNode(w, n, p, at) ==
    IF ~Ok(w) THEN w
    ELSE [w EXCEPT !.scene = @ \cup {n},
                   !.parent = (n :> p) @@ @,
                   !.pos = (n :> at) @@ @]

RECURSIVE IsUnder(_, _, _)
IsUnder(w, x, n) ==
    \/ x = n
    \/ /\ x \in DOMAIN w.parent
       /\ w.parent[x] # World
       /\ IsUnder(w, w.parent[x], n)

Restrict(f, S) == [x \in (DOMAIN f) \cap S |-> f[x]]

\* mc.delete(n): n and everything parented under it go; a constraint is a
\* child of the node it constrains; the curves of a deleted output joint go
\* with it; a deleted node stops being a target.  A name that matches no
\* object raises.
mcDelete(w, n) ==
    IF ~Ok(w) THEN w
    ELSE IF n \notin w.scene THEN Raise(w, "ValueError")
    ELSE LET gone == {x \in w.scene : IsUnder(w, x, n)}
             keep == w.scene \ gone
         IN  [w EXCEPT !.scene = keep,
                       !.parent = Restrict(@, keep),
                       !.pos = Restrict(@, keep),
                       !.cons = [c \in (DOMAIN @) \cap keep |->
                                    [@[c] EXCEPT !.targets = @ \cap keep]],
                       !.curves = [g \in DOMAIN @ |->
                                    IF muscleJoint(g) \in gone THEN <<>> ELSE @[g]]]

\* mc.setAttr / mc.getAttr on a display or transform attribute of n
setAttr(w, n) ==
    IF ~Ok(w) THEN w
    ELSE IF n \notin w.scene THEN Raise(w, "RuntimeError")
    ELSE w

\* mc.parent(n, p): reparent, world position kept
mcParent(w, n, p) ==
    IF ~Ok(w) THEN w
    ELSE IF n \notin w.scene \/ p \notin w.scene THEN Raise(w, "RuntimeError")
    ELSE [w EXCEPT !.parent[n] = p]

Avg(w, T) == VDivN(VSum(T, w.pos), Cardinality(T))

\* where a point constraint puts its object
ConstrainedPos(w, c) ==
    LET k == w.cons[c]
    IN  IF k.type = "point" /\ k.targets # {}
        THEN VAdd(Avg(w, k.targets), k.offset)
        ELSE w.pos[k.obj]

\* one evaluation of every point constraint
EvalPass(w) ==
    [w EXCEPT !.pos =
        [n \in DOMAIN @ |->
            IF PointConstraintName(n) \in DOMAIN w.cons
            THEN ConstrainedPos(w, PointConstraintName(n))
            ELSE @[n]]]

\* A centre locator is an unconstrained child of its pivot group, which
\* follows the two end locators and turns with the origin locator's aim.
\* When the pivot group moves, a centre locator sitting on the pivot (local
\* translation zero) moves with it; one the user has moved off the pivot
\* also swings with the aim rotation, which is not computed here: it lands
\* on w.hint, a point the action picks freely.
FollowCenter(old, new) ==
    [new EXCEPT !.pos =
        [n \in DOMAIN @ |->
            IF /\ n[2] = "muscleCenter_loc"
               /\ new.parent[n] \in DOMAIN old.pos
               /\ old.pos[new.parent[n]] # @[new.parent[n]]
            THEN IF old.pos[n] = old.pos[new.parent[n]]
                 THEN @[new.parent[n]]
                 ELSE new.hint
            ELSE @[n]]]

\* The offset and output joints hang under the driver with zero local
\* translation (the output joint's own channels are its driven keys).
SitOnDriver(w) ==
    [w EXCEPT !.pos =
        [n \in DOMAIN @ |->
            IF n[2] \in {"muscleOffset", "JOmuscle"} /\ <<n[1], "muscleDriver", 0>> \in DOMAIN @
            THEN @[<<n[1], "muscleDriver", 0>>]
            ELSE @[n]]]

\* the scene after the dependency graph has settled: locators drive origin,
\* insertion and the pivot group, these drive base and tip, these the driver
Settle(w) ==
    IF ~Ok(w) THEN w
    ELSE LET a == EvalPass(w)
             b == FollowCenter(w, a)
         IN  SitOnDriver(EvalPass(EvalPass(b)))

\* the channels a kind of constraint drives on its object
Drives(type) ==
    CASE type = "point" -> {"translate"}
      [] type = "aim" -> {"rotate"}
      [] type = "parent" -> {"translate", "rotate"}
\* the host refuses a constraint on channels that a constraint of another
\* kind already drives ("Could not add constraint or connections")
Conflict(w, obj, type) ==
    \E c \in DOMAIN w.cons :
        /\ w.cons[c].obj = obj
        /\ w.cons[c].type # type
        /\ Drives(w.cons[c].type) \cap Drives(type) # {}

\* mc.pointConstraint(targets..., obj, maintainOffset=mo): a constraint on
\* an object that already has one adds the targets to it and returns the
\* same node.  A new constraint node records the method that built it (by).
pointConstraint(w, T, obj, mo) ==
    IF ~Ok(w) THEN w
    ELSE IF ~((T \cup {obj}) \subseteq w.scene) THEN Raise(w, "ValueError")
    ELSE IF Conflict(w, obj, "point") THEN Raise(w, "RuntimeError")
    ELSE LET c == PointConstraintName(obj)
             old == IF c \in DOMAIN w.cons THEN w.cons[c].targets ELSE {}
             all == old \cup T
             off == IF mo THEN VSub(w.pos[obj], Avg(w, all)) ELSE VZero
         IN  Settle([w EXCEPT
                 !.scene = @ \cup {c},
                 !.parent = (c :> obj) @@ @,
                 !.cons = (c :> [type |-> "point", obj |-> obj,
                                 targets |-> all, offset |-> off,
                                 by |-> IF c \in DOMAIN w.cons THEN w.cons[c].by
                                        ELSE w.op]) @@ @])

\* mc.aimConstraint(target, obj, ...): orientation is not part of the model
aimConstraint(w, t, obj) ==
    IF ~Ok(w) THEN w
    ELSE IF ~({t, obj} \subseteq w.scene) THEN Raise(w, "ValueError")
    ELSE IF Conflict(w, obj, "aim") THEN Raise(w, "RuntimeError")
    ELSE LET c == AimConstraintName(obj)
             old == IF c \in DOMAIN w.cons THEN w.cons[c].targets ELSE {}
         IN  [w EXCEPT
                 !.scene = @ \cup {c},
                 !.parent = (c :> obj) @@ @,
                 !.cons = (c :> [type |-> "aim", obj |-> obj,
                                 targets |-> old \cup {t}, offset |-> VZero,
                                 by |-> IF c \in DOMAIN w.cons THEN w.cons[c].by
                                        ELSE w.op]) @@ @]

\* mc.matchTransform(n, to, position=True) / mc.xform(n, translation=p, ws=True):
\* n is put at world position p, its children move with it, and whatever
\* is constrained to it follows
setWorldPos(w, n, p) ==
    IF ~Ok(w) THEN w
    ELSE IF n \notin w.scene THEN Raise(w, "ValueError")
    ELSE LET m == [w EXCEPT !.pos[n] = p]
         IN  Settle(FollowCenter(w, m))

\* mc.xform(n, translation=True, worldSpace=True, query=True)
CanQuery(w, n) == n \in DOMAIN w.pos

(***************************************************************************)
(* Driven keys.  A curve is a set of keys <<driver value, value>>, at most *)
(* one per driver value; it is linear between keys and constant outside.   *)
(***************************************************************************)
RAdd(a, b) == Rat(a[1] * b[2] + b[1] * a[2], a[2] * b[2])
RSub(a, b) == Rat(a[1] * b[2] - b[1] * a[2], a[2] * b[2])
RLess(a, b) == a[1] * b[2] < b[1] * a[2]

Axes == <<"X", "Y", "Z">>
Channels == {"scale" \o Axes[i] : i \in 1..3} \cup {"translate" \o Axes[i] : i \in 1..3}

\* the value of a curve at driver value d
Eval(keys, d) ==
    LET at == {k \in keys : k[1] = d}
        lo == {k \in keys : RLess(k[1], d)}
        hi == {k \in keys : RLess(d, k[1])}
        a == CHOOSE k \in lo : \A j \in lo : ~RLess(k[1], j[1])
        b == CHOOSE k \in hi : \A j \in hi : ~RLess(j[1], k[1])
    IN  IF at # {} THEN (CHOOSE k \in at : TRUE)[2]
        ELSE IF lo = {} THEN b[2]
        ELSE IF hi = {} THEN a[2]
        ELSE RAdd(a[2], RMul(RSub(b[2], a[2]),
                             RMul(RSub(d, a[1]), RInv(RSub(b[1], a[1])))))

\* mc.setAttr on a channel of the output joint
setChannel(st, ch, v) == [st EXCEPT !.attr[ch] = v]

\* mc.setAttr on the driver, tip.translateY: the driven channels take the
\* value of their curves at the new driver value
setDriver(st, d) ==
    [st EXCEPT !.tipY = d,
               !.attr = [ch \in DOMAIN @ |->
                            IF ch \in DOMAIN st.cv THEN Eval(st.cv[ch], d) ELSE @[ch]]]

\* mc.setDrivenKeyframe(channel, currentDriver=tip.translateY): a key at the
\* current driver value holding the channel's current value; a key already
\* at that driver value is replaced
setDrivenKeyframe(st, ch) ==
    LET old == IF ch \in DOMAIN st.cv THEN st.cv[ch] ELSE {}
    IN  [st EXCEPT !.cv = (ch :> ({k \in old : k[1] # st.tipY}
                                    \cup {<<st.tipY, st.attr[ch]>>})) @@ @]

\* the scale of the two perpendicular axes for a factor f
XZScaleWrong(f) == RInv(f)
XZScale(f) == RSqrt(RInv(f))

\* the values _addSDK sets on the output joint at a sample: the factor on Y,
\* the perpendicular scale and the offset's component on X and Z
SetSample(st, i, factor, offset) ==
    IF Axes[i] = "Y" THEN setChannel(st, "scale" \o Axes[i], factor)
    ELSE setChannel(setChannel(st, "scale" \o Axes[i], XZScale(factor)),
                    "translate" \o Axes[i], RInt(offset[i]))

\* the two mc.setDrivenKeyframe calls of a sample
KeyBoth(st, i) ==
    Result({setDrivenKeyframe(k, "translate" \o Axes[i]) :
               k \in {setDrivenKeyframe(s, "scale" \o Axes[i]) : s \in {st}}})

\* the body of the loop of _addSDK for the axis of index i (1..3)
SDKAxis(st, i, restLength, g) ==
    LET stretchOffset == IF g.stretchOffset = <<>> THEN VZero ELSE g.stretchOffset
        compressionOffset == IF g.compressionOffset = <<>> THEN VZero
                             ELSE g.compressionOffset
        \* relax length
        Relax(x) == KeyBoth(setChannel(setChannel(x, "scale" \o Axes[i], ROne),
                                       "translate" \o Axes[i], RZero), i)
        \* stretch length
        Stretch(x) == KeyBoth(SetSample(setDriver(x, RMul(restLength, g.stretchFactor)),
                                        i, g.stretchFactor, stretchOffset), i)
        \* compression length
        Compress(x) == KeyBoth(SetSample(setDriver(x, RMul(restLength, g.compressionFactor)),
                                         i, g.compressionFactor, compressionOffset), i)
    IN  Result({setDriver(c, restLength) :
                   c \in {Compress(s) : s \in {Stretch(r) : r \in {Relax(st)}}}})

\* tip.translateY: the tip is a child of the base, which aims its Y axis at
\* the insertion, and the tip is point-constrained to the insertion
TipTranslateY(w, g) == RInt(VLen(VSub(w.pos[muscleTip(g)], w.pos[muscleBase(g)])))

\* MuscleJointGroup._addSDK
addSDK(w, g) ==
    IF ~Ok(w) THEN w
    ELSE IF ~({muscleTip(g), muscleJoint(g)} \subseteq w.scene) THEN Raise(w, "ValueError")
    ELSE LET restLength == TipTranslateY(w, g)
             st0 == [tipY |-> restLength,
                     attr |-> [ch \in Channels |->
                                 IF ch \in DOMAIN w.curves[g]
                                 THEN Eval(w.curves[g][ch], restLength)
                                 ELSE IF ch \in {"scaleX", "scaleY", "scaleZ"}
                                      THEN ROne ELSE RZero],
                     cv |-> w.curves[g]]
             st3 == Result({SDKAxis(st2, 3, restLength, w.grp[g]) :
                              st2 \in {SDKAxis(st1, 2, restLength, w.grp[g]) :
                                         st1 \in {SDKAxis(st0, 1, restLength, w.grp[g])}}})
         IN  [w EXCEPT !.curves[g] = st3.cv]

(***************************************************************************)
(* MuscleJointGroup.                                                       *)
(***************************************************************************)
\* the fields before __init__ has run
NoGroup ==
    [made |-> FALSE, muscleLength |-> 0,
     compressionFactor |-> ROne, stretchFactor |-> ROne,
     stretchOffset |-> <<>>, compressionOffset |-> <<>>,
     mainPointConstraint |-> None, mainAimConstraint |-> None,
     ptConstraintsEdits |-> <<>>,
     originLoc |-> None, insertionLoc |-> None, centerLoc |-> None]

\* MuscleJointGroup.createJoint with a parent: the joint sits on its parent
createJoint(w, n, p) ==
    IF ~Ok(w) THEN w ELSE CreateNode(w, n, p, w.pos[p])

\* mc.delete(mc.aimConstraint(insertion, origin, ...)): orients the origin
\* once and leaves no node
OrientOrigin(w, g) ==
    mcDelete(aimConstraint(w, muscleInsertion(g), muscleOrigin(g)),
             AimConstraintName(muscleOrigin(g)))

\* MuscleJointGroup.create
create(w, g) ==
    LET C1(x) == CreateNode(x, muscleOrigin(g), World, VZero)
        C2(x) == CreateNode(x, muscleInsertion(g), World, VZero)
        C3(x) == setWorldPos(x, muscleInsertion(g), <<x.grp[g].muscleLength, 0, 0>>)
        C4(x) == OrientOrigin(x, g)
        C5(x) == CreateNode(x, muscleBase(g), World, VZero)
        C6(x) == pointConstraint(x, {muscleOrigin(g)}, muscleBase(g), FALSE)
        C7(x) == Assign(aimConstraint(x, muscleInsertion(g), muscleBase(g)),
                        g, "mainAimConstraint", AimConstraintName(muscleBase(g)))
        C8(x) == createJoint(x, muscleTip(g), muscleBase(g))
        C9(x) == pointConstraint(x, {muscleInsertion(g)}, muscleTip(g), FALSE)
        C10(x) == createJoint(x, muscleDriver(g), muscleBase(g))
        C11(x) == Assign(pointConstraint(x, {muscleBase(g), muscleTip(g)}, muscleDriver(g),
                                         FALSE),
                         g, "mainPointConstraint", PointConstraintName(muscleDriver(g)))
        C12(x) == mcParent(x, muscleBase(g), muscleOrigin(g))
        C13(x) == createJoint(x, muscleOffset(g), muscleDriver(g))
        C14(x) == createJoint(x, muscleJoint(g), muscleOffset(g))
        C15(x) == addSDK(x, g)
    IN  Result({C15(nx) : nx \in
               {C14(nx) : nx \in
               {C13(nx) : nx \in
               {C12(nx) : nx \in
               {C11(nx) : nx \in
               {C10(nx) : nx \in
               {C9(nx) : nx \in
               {C8(nx) : nx \in
               {C7(nx) : nx \in
               {C6(nx) : nx \in
               {C5(nx) : nx \in
               {C4(nx) : nx \in
               {C3(nx) : nx \in
               {C2(nx) : nx \in
               {C1(nx) : nx \in {w}}}}}}}}}}}}}}}})

\* createSpaceLocator of edit(): a locator at the world origin
createSpaceLocator(w, n) == CreateNode(w, n, World, VZero)

\* where edit() puts a new locator: on the joint it stands for
LocatorStartWrong(w, joint) == VZero
LocatorStart(w, joint) == w.pos[joint]

\* self.ptConstraintsEdits.append(mc.pointConstraint(loc, joint, mo=False)[0])
TrackBindingUntracked(w, g, loc, joint) == pointConstraint(w, {loc}, joint, FALSE)
TrackBinding(w, g, loc, joint) ==
    LET c == pointConstraint(w, {loc}, joint, FALSE)
    IN  IF ~Ok(c) THEN c
        ELSE [c EXCEPT !.grp[g].ptConstraintsEdits =
                          Append(@, PointConstraintName(joint))]

\* mc.delete(self.mainPointConstraint) of edit(): the driver leaves the
\* base+tip blend
DropBlendSkipped(w, n) == w
DropBlend(w, n) == mcDelete(w, n)

\* self.<field> = createSpaceLocator(0.1, name='<muscleName>_<kind>')
NewLocator(w, g, kind, field) ==
    Assign(createSpaceLocator(w, UniqueName(w, g, kind)), g, field, UniqueName(w, g, kind))

\* driverGrp = mc.group(name='<muscleName>_muscleCenter_grp', empty=True)
NewDriverGrp(w, g) ==
    IF ~Ok(w) THEN w
    ELSE [CreateNode(w, UniqueName(w, g, "muscleCenter_grp"), World, VZero)
             EXCEPT !.driverGrp = UniqueName(w, g, "muscleCenter_grp")]

\* mc.matchTransform(n, joint, position=True, ...)
MatchJoint(w, n, joint) ==
    IF ~Ok(w) THEN w ELSE setWorldPos(w, n, LocatorStart(w, joint))

\* MuscleJointGroup.edit
edit(w, g) ==
    LET E1(x) == setAttr(setAttr(x, muscleOrigin(g)), muscleInsertion(g))
        E2(x) == NewLocator(x, g, "muscleOrigin_loc", "originLoc")
        E3(x) == MatchJoint(x, x.grp[g].originLoc, muscleOrigin(g))
        E4(x) == TrackBinding(x, g, x.grp[g].originLoc, muscleOrigin(g))
        E5(x) == NewLocator(x, g, "muscleInsertion_loc", "insertionLoc")
        E6(x) == MatchJoint(x, x.grp[g].insertionLoc, muscleInsertion(g))
        E7(x) == TrackBinding(x, g, x.grp[g].insertionLoc, muscleInsertion(g))
        \* look at each other
        E8(x) == aimConstraint(aimConstraint(x, x.grp[g].insertionLoc, x.grp[g].originLoc),
                               x.grp[g].originLoc, x.grp[g].insertionLoc)
        E9(x) == NewDriverGrp(x, g)
        E10(x) == NewLocator(x, g, "muscleCenter_loc", "centerLoc")
        E11(x) == mcParent(x, x.grp[g].centerLoc, x.driverGrp)
        E12(x) == MatchJoint(x, x.driverGrp, muscleDriver(g))
        E13(x) == mcParent(x, x.driverGrp, x.grp[g].originLoc)
        E14(x) == pointConstraint(x, {x.grp[g].originLoc, x.grp[g].insertionLoc},
                                  x.driverGrp, TRUE)
        E15(x) == DropBlend(x, x.grp[g].mainPointConstraint)
        E16(x) == TrackBinding(x, g, x.grp[g].centerLoc, muscleDriver(g))
    IN  Result({E16(nx) : nx \in
               {E15(nx) : nx \in
               {E14(nx) : nx \in
               {E13(nx) : nx \in
               {E12(nx) : nx \in
               {E11(nx) : nx \in
               {E10(nx) : nx \in
               {E9(nx) : nx \in
               {E8(nx) : nx \in
               {E7(nx) : nx \in
               {E6(nx) : nx \in
               {E5(nx) : nx \in
               {E4(nx) : nx \in
               {E3(nx) : nx \in
               {E2(nx) : nx \in
               {E1(nx) : nx \in {w}}}}}}}}}}}}}}}}})

\* the guard of the first loop of update(): if mc.objExists(ptConstraint_tmp)
BindingGuardMissing(w, n) == TRUE
BindingGuard(w, n) == objExists(w, n)

\* for ptConstraint_tmp in self.ptConstraintsEdits: delete it if it exists
RECURSIVE DeleteBindings(_, _, _)
DeleteBindings(w, names, i) ==
    IF i > Len(names) \/ ~Ok(w) THEN w
    ELSE DeleteBindings(IF BindingGuard(w, names[i]) THEN mcDelete(w, names[i]) ELSE w,
                        names, i + 1)

\* for loc in [originLoc, insertionLoc, centerLoc]: delete it if it exists
\* if mc.objExists(n): mc.delete(n)
DeleteIfExists(w, n) == IF objExists(w, n) THEN mcDelete(w, n) ELSE w
RECURSIVE DeleteLocators(_, _, _)
DeleteLocators(w, names, i) ==
    IF i > Len(names) \/ ~Ok(w) THEN w
    ELSE DeleteLocators(DeleteIfExists(w, names[i]), names, i + 1)

\* mc.delete(animCurveNodes): every driven-key curve that feeds the output joint
DeleteCurvesSkipped(w, g) == w
DeleteCurves(w, g) == IF ~Ok(w) THEN w ELSE [w EXCEPT !.curves[g] = <<>>]

\* maintainOffset of the point blend that update() builds
UpdateBlendOffset == TRUE

\* MuscleJointGroup.update
update(w, g) ==
    LET U1(x) == DeleteBindings(x, x.grp[g].ptConstraintsEdits, 1)
        U2(x) == DeleteLocators(x, <<x.grp[g].originLoc, x.grp[g].insertionLoc,
                                     x.grp[g].centerLoc>>, 1)
        U3(x) == setAttr(setAttr(x, muscleOrigin(g)), muscleInsertion(g))
        U4(x) == mcDelete(x, x.grp[g].mainAimConstraint)
        U5(x) == Assign(pointConstraint(x, {muscleBase(g), muscleTip(g)}, muscleDriver(g),
                                        UpdateBlendOffset),
                        g, "mainPointConstraint", PointConstraintName(muscleDriver(g)))
        U6(x) == OrientOrigin(x, g)
        U7(x) == Assign(aimConstraint(x, muscleInsertion(g), muscleBase(g)),
                        g, "mainAimConstraint", AimConstraintName(muscleBase(g)))
        U8(x) == addSDK(DeleteCurves(x, g), g)
    IN  Result({U8(nx) : nx \in
               {U7(nx) : nx \in
               {U6(nx) : nx \in
               {U5(nx) : nx \in
               {U4(nx) : nx \in
               {U3(nx) : nx \in
               {U2(nx) : nx \in
               {U1(nx) : nx \in {w}}}}}}}}})

\* the exceptions the try of delete() catches: except RuntimeError
Swallowed == {"RuntimeError"}
Swallow(u) == IF u.err \in Swallowed THEN [u EXCEPT !.err = "none"] ELSE u

\* the best-effort update() of delete()
TryUpdateSkipped(w, g) == w
TryUpdate(w, g) == Swallow(update(w, g))

\* MuscleJointGroup.delete
delete(w, g) ==
    LET D1(x) == TryUpdate(x, g)
        D2(x) == DeleteIfExists(x, muscleOrigin(g))
        D3(x) == DeleteIfExists(x, muscleInsertion(g))
    IN  Result({D3(nx) : nx \in
               {D2(nx) : nx \in
               {D1(nx) : nx \in {w}}}})

\* the constructor's field assignments
InitFields(w, g, len, cf, sf, so, co) ==
    [w EXCEPT !.grp[g] = [NoGroup EXCEPT !.made = TRUE, !.muscleLength = len,
                                         !.compressionFactor = cf, !.stretchFactor = sf,
                                         !.stretchOffset = so, !.compressionOffset = co]]

\* MuscleJointGroup.__init__(muscleName, muscleLength, compressionFactor,
\* stretchFactor, stretchOffset, compressionOffset)
construct(w, g, len, cf, sf, so, co) ==
    LET I1(x) == InitFields(x, g, len, cf, sf, so, co)
        I2(x) == create(x, g)
        I3(x) == edit(x, g)
    IN  Result({I3(nx) : nx \in
               {I2(nx) : nx \in
               {I1(nx) : nx \in {w}}}})

\* the order in which the two factories hand the offsets to the constructor:
\* cls(muscleName, muscleLength, compressionFactor, stretchFactor,
\*     compressionOffset, stretchOffset)
FactoryConstruct(w, g, len, cf, sf, stretchOffset, compressionOffset) ==
    construct(w, g, len, cf, sf, compressionOffset, stretchOffset)

\* the four mc.parent calls that end the factories and mirror()
ParentToAttach(w, g, originAttachObj, insertionAttachObj) ==
    IF ~Ok(w) THEN w
    ELSE mcParent(mcParent(mcParent(mcParent(w,
             muscleOrigin(g), originAttachObj),
             muscleInsertion(g), insertionAttachObj),
             w.grp[g].originLoc, originAttachObj),
             w.grp[g].insertionLoc, insertionAttachObj)

\* mc.matchTransform(n, to): n is put where to is
MatchTo(w, n, to) == IF ~Ok(w) THEN w ELSE setWorldPos(w, n, w.pos[to])

\* MuscleJointGroup.createFromAttachObjs
createFromAttachObjs(w, g, originAttachObj, insertionAttachObj, cf, sf, so, co) ==
    IF ~(CanQuery(w, originAttachObj) /\ CanQuery(w, insertionAttachObj))
    THEN Raise(w, "ValueError")
    ELSE LET muscleLength == VLen(VSub(w.pos[insertionAttachObj], w.pos[originAttachObj]))
             A1(x) == FactoryConstruct(x, g, muscleLength, cf, sf, so, co)
             A2(x) == MatchTo(x, x.grp[g].originLoc, originAttachObj)
             A3(x) == MatchTo(x, x.grp[g].insertionLoc, insertionAttachObj)
             A4(x) == ParentToAttach(x, g, originAttachObj, insertionAttachObj)
         IN  Result({A4(nx) : nx \in
                    {A3(nx) : nx \in
                    {A2(nx) : nx \in
                    {A1(nx) : nx \in {w}}}}})

\* if mc.ls(bpCenter): mc.matchTransform(centerLoc, bpCenter, position=True)
MatchCenter(w, g, bpCenter) ==
    IF Ok(w) /\ objExists(w, bpCenter) THEN MatchTo(w, w.grp[g].centerLoc, bpCenter) ELSE w

\* MuscleJointGroup.createFromBlueprint
createFromBlueprint(w, g, bpOrigin, bpInsertion, bpCenter, originAttachObj, insertionAttachObj, cf, sf, so, co) ==
    IF ~objExists(w, bpOrigin) \/ ~objExists(w, bpInsertion)
    THEN Raise(w, "RuntimeError")
    ELSE LET muscleLength == VLen(VSub(w.pos[bpInsertion], w.pos[bpOrigin]))
             B1(x) == FactoryConstruct(x, g, muscleLength, cf, sf, so, co)
             B2(x) == MatchTo(x, x.grp[g].originLoc, bpOrigin)
             B3(x) == MatchTo(x, x.grp[g].insertionLoc, bpInsertion)
             B4(x) == MatchCenter(x, g, bpCenter)
             B5(x) == ParentToAttach(x, g, originAttachObj, insertionAttachObj)
         IN  Result({B5(nx) : nx \in
                    {B4(nx) : nx \in
                    {B3(nx) : nx \in
                    {B2(nx) : nx \in
                    {B1(nx) : nx \in {w}}}}}})

\* the mirror image of a world position: across the world YZ plane
MirrorPosWrong(p) == <<p[1], -p[2], p[3]>>
MirrorPos(p) == <<-p[1], p[2], p[3]>>

\* mc.xform(n, translation=p, worldSpace=True)
Xform(w, n, p) == IF ~Ok(w) THEN w ELSE setWorldPos(w, n, p)

\* MuscleJointGroup.mirror: self is group g, the new group is m
mirror(w, g, m, originAttachObj, insertionAttachObj) ==
    IF ~(CanQuery(w, muscleOrigin(g)) /\ CanQuery(w, muscleInsertion(g))
         /\ CanQuery(w, muscleDriver(g)))
    THEN Raise(w, "ValueError")
    ELSE LET originPos == w.pos[muscleOrigin(g)]
             insertionPos == w.pos[muscleInsertion(g)]
             centerPos == w.pos[muscleDriver(g)]
             muscleLength == VLen(VSub(insertionPos, originPos))
             f == w.grp[g]
             M1(x) == construct(x, m, muscleLength, f.compressionFactor, f.stretchFactor,
                                f.stretchOffset, f.compressionOffset)
             M2(x) == Xform(x, x.grp[m].originLoc, MirrorPos(originPos))
             M3(x) == Xform(x, x.grp[m].insertionLoc, MirrorPos(insertionPos))
             M4(x) == Xform(x, x.grp[m].centerLoc, MirrorPos(centerPos))
             M5(x) == mcParent(x, muscleOrigin(m), originAttachObj)
             M6(x) == mcParent(x, x.grp[m].originLoc, originAttachObj)
             M7(x) == mcParent(x, muscleInsertion(m), insertionAttachObj)
             M8(x) == mcParent(x, x.grp[m].insertionLoc, insertionAttachObj)
         IN  Result({M8(nx) : nx \in
                    {M7(nx) : nx \in
                    {M6(nx) : nx \in
                    {M5(nx) : nx \in
                    {M4(nx) : nx \in
                    {M3(nx) : nx \in
                    {M2(nx) : nx \in
                    {M1(nx) : nx \in {w}}}}}}}}})

(***************************************************************************)
(* rollBone.py: the twist joint chains.                                    *)
(*                                                                         *)
(* The scene of a limb is its joints (strings, as the host names them),    *)
(* each joint's parent and ordered children, its local translation (exact  *)
(* rationals), the orient and aim constraints, the current selection, and  *)
(* the Python locals of the function that is running (py).  A joint's      *)
(* local rotation r is the matrix whose rows are the images of its local   *)
(* axes in its parent's frame (the host multiplies row vectors from the    *)
(* left); the limb is built along the world axes, so every r is the        *)
(* identity until a projection rotates a joint.  For the non-flip setup    *)
(* the scene also holds the saved poses, the utility nodes with their      *)
(* connections, and the driven keys recorded on each joint, in order.      *)
(***************************************************************************)
\* the limb the twist chains are built on; the clavicle has no parent joint,
\* the shoulder has two child joints (the elbow first), the elbow and the
\* pad have none
JOClavicle == "JOLeftClavicle1"
JOShoulder == "JOLeftShoulder1"
JOElbow == "JOLeftElbow1"
JOPad == "JOLeftShoulderPad1"
LimbJoints == {JOClavicle, JOShoulder, JOElbow, JOPad}
\* a joint name no node has
JOGhost == "JOLeftGhost1"
\* Python's None and the scene root as joint names
NoneJ == "None"
WorldJ == "|"

\* the joints of the hand: two fingers with a parent joint each, one of
\* them on the right side, and their parents, which have none
JOLeftThumbBase == "JOLeftThumbBase1"
JOLeftThumbMid == "JOLeftThumbMid1"
JORightThumbBase == "JORightThumbBase1"
JORightThumbMid == "JORightThumbMid1"
HandJoints == {JOLeftThumbBase, JOLeftThumbMid, JORightThumbBase, JORightThumbMid}

\* names as the sequences of their characters
JO == <<"J", "O">>
Left == <<"L", "e", "f", "t">>
Right == <<"R", "i", "g", "h", "t">>
Shoulder == <<"S", "h", "o", "u", "l", "d", "e", "r">>
Thumb == <<"T", "h", "u", "m", "b">>
chars(n) ==
    CASE n = JOClavicle -> JO \o Left \o <<"C", "l", "a", "v", "i", "c", "l", "e", "1">>
      [] n = JOShoulder -> JO \o Left \o Shoulder \o <<"1">>
      [] n = JOElbow -> JO \o Left \o <<"E", "l", "b", "o", "w", "1">>
      [] n = JOPad -> JO \o Left \o Shoulder \o <<"P", "a", "d", "1">>
      [] n = JOLeftThumbBase -> JO \o Left \o Thumb \o <<"B", "a", "s", "e", "1">>
      [] n = JOLeftThumbMid -> JO \o Left \o Thumb \o <<"M", "i", "d", "1">>
      [] n = JORightThumbBase -> JO \o Right \o Thumb \o <<"B", "a", "s", "e", "1">>
      [] n = JORightThumbMid -> JO \o Right \o Thumb \o <<"M", "i", "d", "1">>
\* the string of a sequence of characters
RECURSIVE join(_)
join(s) == IF s = <<>> THEN "" ELSE Head(s) \o join(Tail(s))

\* s.lstrip(cs): every leading character that is one of cs removed
RECURSIVE lstrip(_, _)
lstrip(s, cs) == IF s # <<>> /\ Head(s) \in cs THEN lstrip(Tail(s), cs) ELSE s
\* s.lstrip('JO') + suffix
lstripped(s, suffix) == join(lstrip(s, {"J", "O"})) \o suffix
\* startJoint.lstrip('JO')
lstripJO(n) == lstripped(chars(n), "")

\* '{0}'.format(index)
digit(i) ==
    CASE i = 0 -> "0" [] i = 1 -> "1" [] i = 2 -> "2" [] i = 3 -> "3" [] i = 4 -> "4"
      [] i = 5 -> "5" [] i = 6 -> "6" [] i = 7 -> "7" [] i = 8 -> "8" [] OTHER -> "9"
RECURSIVE format(_)
format(i) == IF i < 10 THEN digit(i) ELSE format(i \div 10) \o digit(i % 10)

twistJointName(startJoint, index) == lstripJO(startJoint) \o "Twist" \o format(index)
twistBasisJointName(startJoint) == lstripJO(startJoint) \o "TwistBasis1"
twistValueJointName(startJoint) == lstripJO(startJoint) \o "TwistValue1"
twistOffsetJointName(startJoint) == lstripJO(startJoint) \o "BasisOffset1"
upJointName(startJoint) == lstripJO(startJoint) \o "TwistUp1"
\* the names the host gives the constraints made on a joint
orientConstraintName(obj) == obj \o "_orientConstraint1"
aimConstraintNameOf(obj) == obj \o "_aimConstraint1"

\* vectors of rationals; every operator evaluates its arguments once, as
\* the members x, y of singleton sets
RVec(v) == <<RInt(v[1]), RInt(v[2]), RInt(v[3])>>
RVScale(r, v) ==
    CHOOSE o \in {<<RMul(x, y[1]), RMul(x, y[2]), RMul(x, y[3])>> : x \in {r}, y \in {v}} : TRUE
RVAdd(a, b) ==
    CHOOSE o \in {<<RAdd(x[1], y[1]), RAdd(x[2], y[2]), RAdd(x[3], y[3])>> :
                     x \in {a}, y \in {b}} : TRUE
RVSub(a, b) ==
    CHOOSE o \in {<<RSub(x[1], y[1]), RSub(x[2], y[2]), RSub(x[3], y[3])>> :
                     x \in {a}, y \in {b}} : TRUE
\* a * b
RVDot(a, b) ==
    CHOOSE o \in {RAdd(RAdd(RMul(x[1], y[1]), RMul(x[2], y[2])), RMul(x[3], y[3])) :
                     x \in {a}, y \in {b}} : TRUE
RVNeg(a) == RVSub(RVec(VZero), a)
\* a ^ b
RVCross(a, b) ==
    CHOOSE o \in {<<RSub(RMul(x[2], y[3]), RMul(x[3], y[2])),
                     RSub(RMul(x[3], y[1]), RMul(x[1], y[3])),
                     RSub(RMul(x[1], y[2]), RMul(x[2], y[1]))>> : x \in {a}, y \in {b}} : TRUE

\* 3x3 matrices as their three rows (om.MMatrix without its translation row)
MIdentity == <<RVec(<<1, 0, 0>>), RVec(<<0, 1, 0>>), RVec(<<0, 0, 1>>)>>
\* v * M (the identity is not multiplied out)
RVMul(v, M) ==
    CHOOSE o \in {IF Y = MIdentity THEN x
                  ELSE RVAdd(RVAdd(RVScale(x[1], Y[1]), RVScale(x[2], Y[2])),
                             RVScale(x[3], Y[3])) : x \in {v}, Y \in {M}} : TRUE
\* A * B
MMul(A, B) ==
    CHOOSE o \in {IF X = MIdentity THEN Y
                  ELSE IF Y = MIdentity THEN X
                  ELSE <<RVMul(X[1], Y), RVMul(X[2], Y), RVMul(X[3], Y)>> :
                     X \in {A}, Y \in {B}} : TRUE
MTranspose(A) == CHOOSE o \in {[i \in 1..3 |-> [j \in 1..3 |-> X[j][i]]] : X \in {A}} : TRUE
MDet(A) == CHOOSE o \in {RVDot(X[1], RVCross(X[2], X[3])) : X \in {A}} : TRUE
\* M.inverse(): the adjugate over the determinant
MInverseOf(X, k) ==
    MTranspose(<<RVScale(k, RVCross(X[2], X[3])), RVScale(k, RVCross(X[3], X[1])),
                 RVScale(k, RVCross(X[1], X[2]))>>)
MInverse(A) ==
    CHOOSE o \in {IF X = MIdentity THEN X ELSE MInverseOf(X, RInv(MDet(X))) : X \in {A}} : TRUE

\* the limb before any twist chain is built
LimbScene ==
    [nodes |-> LimbJoints,
     parent |-> [n \in LimbJoints |->
                    CASE n = JOClavicle -> WorldJ
                      [] n = JOShoulder -> JOClavicle
                      [] OTHER -> JOShoulder],
     kids |-> [n \in LimbJoints |->
                    CASE n = JOClavicle -> <<JOShoulder>>
                      [] n = JOShoulder -> <<JOElbow, JOPad>>
                      [] OTHER -> <<>>],
     t |-> [n \in LimbJoints |->
                    CASE n = JOClavicle -> RVec(<<0, 0, 0>>)
                      [] n = JOShoulder -> RVec(<<0, 3, 0>>)
                      [] n = JOElbow -> RVec(<<0, 9, 0>>)
                      [] OTHER -> RVec(<<0, -2, 0>>)],
     r |-> [n \in LimbJoints |-> MIdentity],
     orient |-> <<>>,
     aim |-> <<>>,
     poses |-> <<>>,
     dg |-> {},
     conn |-> {},
     keys |-> <<>>,
     sel |-> {},
     py |-> <<>>,
     err |-> "none"]

\* a local variable of the running function
Local(x, name, v) == IF Ok(x) THEN [x EXCEPT !.py = (name :> v) @@ @] ELSE x

\* cmds.ls(name): the nodes of that name
cmdsLs(x, n) == IF n \in x.nodes THEN <<n>> ELSE <<>>

\* cmds.listRelatives(n, children=True, type='joint'), in child order
listChildren(x, n) == x.kids[n]

\* cmds.listRelatives(n, parent=True, type='joint')
listParent(x, n) == IF x.parent[n] = WorldJ THEN <<>> ELSE <<x.parent[n]>>

\* cmds.select(n) and cmds.select(clear=True)
cmdsSelect(x, S) == IF Ok(x) THEN [x EXCEPT !.sel = S] ELSE x

\* cmds.joint(name=n): a joint under the selected node (under the world
\* when nothing is selected), at its parent's origin; it becomes the selection
cmdsJoint(x, n) ==
    IF ~Ok(x) THEN x
    ELSE LET p == IF x.sel = {} THEN WorldJ ELSE CHOOSE s \in x.sel : TRUE
         IN  [x EXCEPT !.nodes = @ \cup {n},
                       !.parent = (n :> p) @@ @,
                       !.kids = IF p = WorldJ THEN (n :> <<>>) @@ @
                                ELSE (n :> <<>>) @@ [@ EXCEPT ![p] = Append(@, n)],
                       !.t = (n :> RVec(VZero)) @@ @,
                       !.r = (n :> MIdentity) @@ @,
                       !.sel = {n}]

\* the rotation of cmds.getAttr(n + '.worldMatrix')
RECURSIVE worldRotation(_, _)
worldRotation(x, n) ==
    IF n = WorldJ THEN MIdentity ELSE MMul(x.r[n], worldRotation(x, x.parent[n]))

\* cmds.xform(n, translation=True, q=True, ws=True)
RECURSIVE xformWs(_, _)
xformWs(x, n) ==
    IF n = WorldJ THEN RVec(VZero)
    ELSE RVAdd(RVMul(x.t[n], worldRotation(x, x.parent[n])), xformWs(x, x.parent[n]))

\* the local translation and rotation that put a child of p at world
\* position at with world rotation rot
localT(x, p, at) == RVMul(RVSub(at, xformWs(x, p)), MInverse(worldRotation(x, p)))
localR(x, p, rot) == MMul(rot, MInverse(worldRotation(x, p)))

\* cmds.matchTransform(n, target): n takes the world transform of target
matchTransform(x, n, target) ==
    IF ~Ok(x) THEN x
    ELSE [x EXCEPT !.t[n] = localT(x, x.parent[n], xformWs(x, target)),
                   !.r[n] = localR(x, x.parent[n], worldRotation(x, target))]

\* n without its entry in the child list of its parent
Unlisted(x, n) ==
    LET p == x.parent[n]
    IN  IF p = WorldJ THEN x.kids
        ELSE [x.kids EXCEPT ![p] = SelectSeq(@, LAMBDA c : c # n)]

\* cmds.rename(old, new)
cmdsRename(x, old, new) ==
    IF ~Ok(x) THEN x
    ELSE LET p == x.parent[old]
             ren(c) == IF c = old THEN new ELSE c
         IN  [x EXCEPT !.nodes = (@ \ {old}) \cup {new},
                       !.parent = (new :> p) @@ [n \in DOMAIN @ \ {old} |-> @[n]],
                       !.kids = (new :> @[old]) @@
                                [n \in DOMAIN @ \ {old} |->
                                    [i \in 1..Len(@[n]) |-> ren(@[n][i])]],
                       !.t = (new :> @[old]) @@ [n \in DOMAIN @ \ {old} |-> @[n]],
                       !.r = (new :> @[old]) @@ [n \in DOMAIN @ \ {old} |-> @[n]],
                       !.sel = {ren(s) : s \in @}]

\* cmds.parent(n, p): n becomes the last child of p and keeps its world
\* position
cmdsParent(x, n, p) ==
    IF ~Ok(x) THEN x
    ELSE IF x.parent[n] = p THEN x
    ELSE [x EXCEPT !.parent[n] = p,
                   !.kids = [Unlisted(x, n) EXCEPT ![p] = Append(@, n)],
                   !.t[n] = localT(x, p, xformWs(x, n)),
                   !.r[n] = localR(x, p, worldRotation(x, n))]

\* cmds.setAttr('{0}.t'.format(n), *translation)
setTranslate(x, n, translation) ==
    IF ~Ok(x) THEN x
    ELSE IF n \notin x.nodes THEN Raise(x, "RuntimeError")
    ELSE [x EXCEPT !.t[n] = translation]

\* cmds.orientConstraint(*targets, obj, weight=1)[0]: every target enters
\* with weight 1 and the default interpolation (1, average)
orientConstraint(x, targets, obj) ==
    IF ~Ok(x) THEN x
    ELSE [x EXCEPT !.orient = (orientConstraintName(obj) :>
                                 [obj |-> obj, targets |-> targets,
                                  W |-> [i \in 1..Len(targets) |-> ROne],
                                  interpType |-> 1]) @@ @]

\* cmds.setAttr('{0}.interpType'.format(orientConstraint), v)
setInterpType(x, c, v) == IF Ok(x) THEN [x EXCEPT !.orient[c].interpType = v] ELSE x

\* cmds.setAttr('{0}.{1}W<i>'.format(orientConstraint, target), v): the
\* weight of the target of index i (from 0)
setWeight(x, c, i, v) == IF Ok(x) THEN [x EXCEPT !.orient[c].W[i + 1] = v] ELSE x

\* cmds.aimConstraint(target, obj, aimVector=, upVector=, worldUpType=,
\* worldUpObject=)
cmdsAimConstraint(x, target, obj, aimVector, upVector, worldUpType, worldUpObject) ==
    IF ~Ok(x) THEN x
    ELSE [x EXCEPT !.aim = (aimConstraintNameOf(obj) :>
                              [obj |-> obj, target |-> target, aimVector |-> aimVector,
                               upVector |-> upVector, worldUpType |-> worldUpType,
                               worldUpObject |-> worldUpObject]) @@ @]

\* if not endJoint: the first child joint of startJoint, when it has one
FirstChildLast(x, startJoint) == x.kids[startJoint][Len(x.kids[startJoint])]
FirstChild(x, startJoint) == x.kids[startJoint][1]

DefaultEnd(x, startJoint) ==
    IF x.py.endJoint # NoneJ \/ listChildren(x, startJoint) = <<>> THEN x
    ELSE Local(x, "endJoint", FirstChild(x, startJoint))

\* if not cmds.ls(endJoint): raise Exception(...)
EndCheck(x, startJoint) ==
    IF ~Ok(x) THEN x
    ELSE IF cmdsLs(x, x.py.endJoint) = <<>>
         THEN Raise(x, "Cannot find a valid joint chain start with " \o startJoint)
    ELSE x

\* for index in range(twistJointCount): a joint under startJoint, renamed
RECURSIVE CreateTwistJoints(_, _, _, _)
CreateTwistJoints(x, startJoint, index, twistJointCount) ==
    IF index >= twistJointCount \/ ~Ok(x) THEN x
    ELSE LET J1(y) == cmdsSelect(y, {startJoint})
             J2(y) == cmdsJoint(y, "joint1")
             J3(y) == cmdsRename(y, "joint1", twistJointName(startJoint, index))
             J4(y) == Local(y, "twistJoints",
                            Append(y.py.twistJoints, twistJointName(startJoint, index)))
         IN  CreateTwistJoints(Result({J4(nx) : nx \in
                                      {J3(nx) : nx \in
                                      {J2(nx) : nx \in
                                      {J1(nx) : nx \in {x}}}}}),
                               startJoint, index + 1, twistJointCount)

\* (end - start).length(), world space
RVLength(v) == RSqrt(RVDot(v, v))
jointChainLength(x, startJoint) ==
    RVLength(RVSub(xformWs(x, x.py.endJoint), xformWs(x, startJoint)))

offsetRatio == <<1, 50>>

\* setupTwistJointChain: jointChainLength *= (1 - offsetRatio);
\* distributionDistance = jointChainLength / len(twistJoints)
TwistDistance(x, startJoint) ==
    RMul(RMul(jointChainLength(x, startJoint), RSub(ROne, offsetRatio)),
         RInv(RInt(Len(x.py.twistJoints))))

\* translation = distributionDistance * om.MVector(twistAxis) * (index + 1)
TwistTranslationFromZero(distributionDistance, twistAxis, index) ==
    RVScale(RMul(distributionDistance, RInt(index)), RVec(twistAxis))
TwistTranslation(distributionDistance, twistAxis, index) ==
    RVScale(RMul(distributionDistance, RInt(index + 1)), RVec(twistAxis))

\* for index, twistJoint in enumerate(twistJoints): setAttr .t
RECURSIVE PlaceTwistJoints(_, _, _, _)
PlaceTwistJoints(x, distributionDistance, twistAxis, index) ==
    IF ~Ok(x) \/ index >= Len(x.py.twistJoints) THEN x
    ELSE PlaceTwistJoints(
             setTranslate(x, x.py.twistJoints[index + 1],
                          TwistTranslation(distributionDistance, twistAxis, index)),
             distributionDistance, twistAxis, index + 1)

\* weightUnit = 1.0 / twistJointCount
weightUnit(twistJointCount) == RInv(RInt(twistJointCount))

\* the weight of the value joint on the twist joint of that index
TwistWeightFromZero(twistJointCount, index) == RMul(weightUnit(twistJointCount), RInt(index))
TwistWeight(twistJointCount, index) == RMul(weightUnit(twistJointCount), RInt(index + 1))

\* for index in range(twistJointCount - 1): the blend of the offset joint
\* (W0) and the value joint (W1) on twistJoints[index]
RECURSIVE BlendTwistJoints(_, _, _)
BlendTwistJoints(x, twistJointCount, index) ==
    IF ~Ok(x) \/ index >= twistJointCount - 1 THEN x
    ELSE LET c == orientConstraintName(x.py.twistJoints[index + 1])
             B1(y) == orientConstraint(y, <<y.py.twistOffsetJoint, y.py.twistValueJoint>>,
                                       y.py.twistJoints[index + 1])
             B2(y) == setInterpType(y, c, 2)
             B3(y) == setWeight(y, c, 0, RSub(ROne, TwistWeight(twistJointCount, index)))
             B4(y) == setWeight(y, c, 1, TwistWeight(twistJointCount, index))
         IN  BlendTwistJoints(Result({B4(nx) : nx \in
                                     {B3(nx) : nx \in
                                     {B2(nx) : nx \in
                                     {B1(nx) : nx \in {x}}}}}),
                              twistJointCount, index + 1)

\* setupTwistJointChain(startJoint, endJoint, twistJointCount, twistAxis, upAxis)
setupTwistJointChain(x, startJoint, endJoint, twistJointCount, twistAxis, upAxis) ==
    LET last1(y) == y.py.twistJoints[Len(y.py.twistJoints)]
        T0(y) == Local([y EXCEPT !.py = <<>>], "endJoint", endJoint)
        T1(y) == DefaultEnd(y, startJoint)
        T2(y) == EndCheck(y, startJoint)
        T3(y) == CreateTwistJoints(Local(y, "twistJoints", <<>>), startJoint, 0,
                                   twistJointCount)
        T4(y) == IF Ok(y)
                 THEN PlaceTwistJoints(y, TwistDistance(y, startJoint), twistAxis, 0)
                 ELSE y
        T5(y) == cmdsJoint(cmdsSelect(y, {}), twistBasisJointName(startJoint))
        T5b(y) == matchTransform(Local(y, "twistBasisJoint1",
                                       twistBasisJointName(startJoint)),
                                 twistBasisJointName(startJoint), startJoint)
        T6(y) == cmdsParent(y, twistBasisJointName(startJoint), startJoint)
        T7(y) == cmdsJoint(cmdsSelect(y, {y.py.twistBasisJoint1}),
                           twistValueJointName(startJoint))
        T8(y) == Local(y, "twistValueJoint", twistValueJointName(startJoint))
        T9(y) == IF Ok(y)
                 THEN cmdsAimConstraint(y, y.py.endJoint, y.py.twistValueJoint, twistAxis,
                                        upAxis, "objectrotation", y.py.endJoint)
                 ELSE y
        T10(y) == cmdsJoint(cmdsSelect(y, {y.py.twistBasisJoint1}),
                            twistOffsetJointName(startJoint))
        T11(y) == Local(y, "twistOffsetJoint", twistOffsetJointName(startJoint))
        T12(y) == IF Ok(y) THEN orientConstraint(y, <<y.py.twistValueJoint>>, last1(y))
                  ELSE y
        T13(y) == IF Ok(y) THEN setInterpType(y, orientConstraintName(last1(y)), 2) ELSE y
        T14(y) == BlendTwistJoints(y, twistJointCount, 0)
        T15(y) == IF Ok(y)
                  THEN Local(y, "return", <<y.py.twistJoints, y.py.twistBasisJoint1>>)
                  ELSE y
    IN  Result({T15(nx) : nx \in
               {T14(nx) : nx \in
               {T13(nx) : nx \in
               {T12(nx) : nx \in
               {T11(nx) : nx \in
               {T10(nx) : nx \in
               {T9(nx) : nx \in
               {T8(nx) : nx \in
               {T7(nx) : nx \in
               {T6(nx) : nx \in
               {T5b(nx) : nx \in
               {T5(nx) : nx \in
               {T4(nx) : nx \in
               {T3(nx) : nx \in
               {T2(nx) : nx \in
               {T1(nx) : nx \in
               {T0(nx) : nx \in {x}}}}}}}}}}}}}}}}}})

\* setupCounterTwistJointChain: offset = jointChainLength * offsetRatio
CounterOffset(x, startJoint) == RMul(jointChainLength(x, startJoint), offsetRatio)

\* distributionDistance = (jointChainLength - offset) / len(twistJoints)
CounterDistance(x, startJoint) ==
    RMul(RSub(jointChainLength(x, startJoint), CounterOffset(x, startJoint)),
         RInv(RInt(Len(x.py.twistJoints))))

\* translation = distributionDistance * twistAxis * index + offset * twistAxis
CounterTranslation(distributionDistance, offset, twistAxis, index) ==
    RVAdd(RVScale(RMul(distributionDistance, RInt(index)), RVec(twistAxis)),
          RVScale(offset, RVec(twistAxis)))

RECURSIVE PlaceCounterJoints(_, _, _, _, _)
PlaceCounterJoints(x, distributionDistance, offset, twistAxis, index) ==
    IF ~Ok(x) \/ index >= Len(x.py.twistJoints) THEN x
    ELSE PlaceCounterJoints(
             setTranslate(x, x.py.twistJoints[index + 1],
                          CounterTranslation(distributionDistance, offset, twistAxis, index)),
             distributionDistance, offset, twistAxis, index + 1)

\* startJointParent = cmds.listRelatives(startJoint, parent=True, type='joint');
\* if not startJointParent: raise Exception(...)
ParentCheckMissing(x, startJoint) ==
    Local(x, "startJointParent",
          IF listParent(x, startJoint) = <<>> THEN startJoint
          ELSE listParent(x, startJoint)[1])
ParentCheck(x, startJoint) ==
    IF ~Ok(x) THEN x
    ELSE IF listParent(x, startJoint) = <<>>
         THEN Raise(x, "Fialed to find the parent joint for startJoint: " \o startJoint)
    ELSE Local(x, "startJointParent", listParent(x, startJoint)[1])

\* the weights of the first twist joint of the counter chain
firstW0 == <<9, 10>>
firstW1 == <<1, 10>>

\* the weight of the value joint on the twist joint of that index, from 1
CounterWeightAhead(twistJointCount, index) == RMul(weightUnit(twistJointCount), RInt(index + 1))
CounterWeight(twistJointCount, index) == RMul(weightUnit(twistJointCount), RInt(index))

\* for index in range(1, twistJointCount): the blend of the offset joint
\* (W0) and the value joint (W1) on twistJoints[index]
RECURSIVE BlendCounterJoints(_, _, _)
BlendCounterJoints(x, twistJointCount, index) ==
    IF ~Ok(x) \/ index >= twistJointCount THEN x
    ELSE LET c == orientConstraintName(x.py.twistJoints[index + 1])
             B1(y) == orientConstraint(y, <<y.py.twistOffsetJoint, y.py.twistValueJoint>>,
                                       y.py.twistJoints[index + 1])
             B2(y) == setInterpType(y, c, 2)
             B3(y) == setWeight(y, c, 0, RSub(ROne, CounterWeight(twistJointCount, index)))
             B4(y) == setWeight(y, c, 1, CounterWeight(twistJointCount, index))
         IN  BlendCounterJoints(Result({B4(nx) : nx \in
                                       {B3(nx) : nx \in
                                       {B2(nx) : nx \in
                                       {B1(nx) : nx \in {x}}}}}),
                                twistJointCount, index + 1)

\* setupCounterTwistJointChain(startJoint, endJoint, twistJointCount, twistAxis, upAxis)
setupCounterTwistJointChain(x, startJoint, endJoint, twistJointCount, twistAxis, upAxis) ==
    LET first(y) == y.py.twistJoints[1]
        basis == twistBasisJointName(startJoint)
        up == upJointName(startJoint)
        T0(y) == Local([y EXCEPT !.py = <<>>], "endJoint", endJoint)
        T1(y) == DefaultEnd(y, startJoint)
        T2(y) == EndCheck(y, startJoint)
        T3(y) == CreateTwistJoints(Local(y, "twistJoints", <<>>), startJoint, 0,
                                   twistJointCount)
        T4(y) == IF Ok(y)
                 THEN PlaceCounterJoints(y, CounterDistance(y, startJoint),
                                         CounterOffset(y, startJoint), twistAxis, 0)
                 ELSE y
        T5(y) == Local(cmdsJoint(cmdsSelect(y, {}), basis), "twistBasisJoint", basis)
        T5b(y) == cmdsParent(y, basis, startJoint)
        T6(y) == matchTransform(y, basis, startJoint)
        T7(y) == Local(cmdsJoint(cmdsSelect(y, {}), up), "upJoint", up)
        T7b(y) == matchTransform(y, up, startJoint)
        T8(y) == cmdsParent(y, up, startJoint)
        T9(y) == setTranslate(y, up, RVec(upAxis))
        T10(y) == ParentCheck(y, startJoint)
        T11(y) == IF Ok(y) THEN cmdsParent(y, up, y.py.startJointParent) ELSE y
        T12(y) == IF Ok(y)
                  THEN cmdsAimConstraint(y, y.py.endJoint, basis, twistAxis, upAxis,
                                         "object", up)
                  ELSE y
        T13(y) == Local(cmdsJoint(cmdsSelect(y, {basis}), twistValueJointName(startJoint)),
                        "twistValueJoint", twistValueJointName(startJoint))
        T14(y) == IF Ok(y)
                  THEN cmdsAimConstraint(y, y.py.endJoint, y.py.twistValueJoint, twistAxis,
                                         upAxis, "objectrotation", startJoint)
                  ELSE y
        T15(y) == Local(cmdsJoint(cmdsSelect(y, {basis}), twistOffsetJointName(startJoint)),
                        "twistOffsetJoint", twistOffsetJointName(startJoint))
        T16(y) == IF Ok(y)
                  THEN orientConstraint(y, <<y.py.twistOffsetJoint, y.py.twistValueJoint>>,
                                        first(y))
                  ELSE y
        T17(y) == IF Ok(y) THEN setInterpType(y, orientConstraintName(first(y)), 2) ELSE y
        T18(y) == IF Ok(y) THEN setWeight(y, orientConstraintName(first(y)), 0, firstW0)
                  ELSE y
        T19(y) == IF Ok(y) THEN setWeight(y, orientConstraintName(first(y)), 1, firstW1)
                  ELSE y
        T20(y) == BlendCounterJoints(y, twistJointCount, 1)
        T21(y) == IF Ok(y)
                  THEN Local(y, "return", <<y.py.twistJoints, y.py.upJoint,
                                            y.py.twistBasisJoint>>)
                  ELSE y
    IN  Result({T21(nx) : nx \in
               {T20(nx) : nx \in
               {T19(nx) : nx \in
               {T18(nx) : nx \in
               {T17(nx) : nx \in
               {T16(nx) : nx \in
               {T15(nx) : nx \in
               {T14(nx) : nx \in
               {T13(nx) : nx \in
               {T12(nx) : nx \in
               {T11(nx) : nx \in
               {T10(nx) : nx \in
               {T9(nx) : nx \in
               {T8(nx) : nx \in
               {T7b(nx) : nx \in
               {T7(nx) : nx \in
               {T6(nx) : nx \in
               {T5b(nx) : nx \in
               {T5(nx) : nx \in
               {T4(nx) : nx \in
               {T3(nx) : nx \in
               {T2(nx) : nx \in
               {T1(nx) : nx \in
               {T0(nx) : nx \in {x}}}}}}}}}}}}}}}}}}}}}}}}})

(***************************************************************************)
(* rollBone.py: the plane projection and the non-flip setup.               *)
(***************************************************************************)
\* the integer root of n between lo and hi, by bisection; -1 when n is no
\* square
RECURSIVE RootIn(_, _, _)
RootIn(n, lo, hi) ==
    IF lo > hi THEN -1
    ELSE LET m == (lo + hi) \div 2
         IN  IF m * m = n THEN m
             ELSE IF m * m < n THEN RootIn(n, m + 1, hi)
             ELSE RootIn(n, lo, m - 1)

IRoot(n) == CHOOSE r \in {RootIn(n, 0, n)} : r >= 0
\* MVector.length(), exact: the squared lengths the limb gives are squares
length(v) == CHOOSE o \in {<<IRoot(q[1]), IRoot(q[2])>> : q \in {RVDot(v, v)}} : TRUE
\* MVector.normal(); the zero vector is returned as it is
normal(v) ==
    CHOOSE o \in {IF x = RVec(VZero) THEN x ELSE RVScale(RInv(length(x)), x) : x \in {v}} : TRUE

\* a.angle(b), between 0 and pi, as its cosine and sine
Cosine(a, b) == RMul(RVDot(a, b), RInv(RMul(length(a), length(b))))
Sine(a, b) == RMul(length(RVCross(a, b)), RInv(RMul(length(a), length(b))))
angle(a, b) ==
    CHOOSE o \in {[cos |-> Cosine(x, y), sin |-> Sine(x, y)] : x \in {a}, y \in {b}} : TRUE
\* math.pi / 2.0 and its negative
halfPi == [cos |-> RZero, sin |-> ROne]
minusHalfPi == [cos |-> RZero, sin |-> RInt(-1)]

\* quaternion.setValue(axis, angle): the rotation about the direction of
\* axis; with a zero axis it turns nothing
setValue(axis, a) == [axis |-> normal(axis), cos |-> a.cos, sin |-> a.sin]

\* v turned by the quaternion q (Rodrigues)
Turned(q, v) ==
    CHOOSE o \in {IF k.axis = RVec(VZero) THEN x
                  ELSE RVAdd(RVAdd(RVScale(k.cos, x), RVScale(k.sin, RVCross(k.axis, x))),
                             RVScale(RMul(RSub(ROne, k.cos), RVDot(k.axis, x)), k.axis)) :
                     k \in {q}, x \in {v}} : TRUE

\* transformFn.rotateBy(quaternion, om.MSpace.kWorld)
rotateBy(x, n, q) ==
    IF ~Ok(x) THEN x
    ELSE [x EXCEPT !.r[n] =
            localR(x, x.parent[n],
                   CHOOSE o \in {<<Turned(q, W[1]), Turned(q, W[2]), Turned(q, W[3])>> :
                                    W \in {worldRotation(x, n)}} : TRUE)]

\* planeNormal=None
NoneV == <<>>

\* the locals of projectJointChainToPlane up to the quaternion
ProjectionNormal(x, planeNormal) == IF planeNormal = NoneV THEN x.py.aimVec ELSE RVec(planeNormal)

\* if not startJointUpVec * planeNormal
PerpendicularToPlane(x) == RVDot(x.py.startJointUpVec, x.py.planeNormal) = RZero

\* d = aimVec * planeNormal / (startJointUpVec * planeNormal)
ProjectionDistance(x) ==
    RMul(RVDot(x.py.aimVec, x.py.planeNormal),
         RInv(RVDot(x.py.startJointUpVec, x.py.planeNormal)))

\* p_ = endJointWs - d * startJointUpVec; targetVec = p_ - startJointWs,
\* negated when negative
TargetUnsigned(x, negative) ==
    RVSub(RVSub(x.py.endJointWs, RVScale(x.py.d, x.py.startJointUpVec)), x.py.startJointWs)
TargetVec(x, negative) ==
    IF negative
    THEN RVNeg(RVSub(RVSub(x.py.endJointWs, RVScale(x.py.d, x.py.startJointUpVec)),
                     x.py.startJointWs))
    ELSE RVSub(RVSub(x.py.endJointWs, RVScale(x.py.d, x.py.startJointUpVec)),
               x.py.startJointWs)

\* projectJointChainToPlane(startJoint, endJoint, upAxis, planeNormal, negative)
projectJointChainToPlane(x, startJoint, endJoint, upAxis, planeNormal, negative) ==
    LET P1(y) == Local(y, "startJointWs", xformWs(y, startJoint))
        P2(y) == Local(y, "endJointWs", xformWs(y, endJoint))
        P3(y) == Local(y, "startJointUpVec", RVMul(RVec(upAxis), worldRotation(y, startJoint)))
        P4(y) == Local(y, "aimVec", RVSub(y.py.endJointWs, y.py.startJointWs))
        P5(y) == Local(y, "planeNormal", ProjectionNormal(y, planeNormal))
        P6(y) == IF ~Ok(y) THEN y
                 ELSE IF PerpendicularToPlane(y)
                 THEN Local(y, "axis", RVCross(y.py.aimVec, y.py.startJointUpVec))
                 ELSE Local(y, "d", ProjectionDistance(y))
        P7(y) == IF ~Ok(y) THEN y
                 ELSE IF PerpendicularToPlane(y)
                 THEN Local(y, "quaternion",
                            setValue(y.py.axis, IF negative THEN minusHalfPi ELSE halfPi))
                 ELSE Local(y, "targetVec", TargetVec(y, negative))
        P8(y) == IF ~Ok(y) \/ PerpendicularToPlane(y) THEN y
                 ELSE Local(y, "axis", RVCross(y.py.aimVec, y.py.targetVec))
        P9(y) == IF ~Ok(y) \/ PerpendicularToPlane(y) THEN y
                 ELSE Local(y, "quaternion",
                            setValue(y.py.axis, angle(y.py.targetVec, y.py.aimVec)))
        P10(y) == IF Ok(y) THEN rotateBy(y, startJoint, y.py.quaternion) ELSE y
    IN  Result({P10(nx) : nx \in
               {P9(nx) : nx \in
               {P8(nx) : nx \in
               {P7(nx) : nx \in
               {P6(nx) : nx \in
               {P5(nx) : nx \in
               {P4(nx) : nx \in
               {P3(nx) : nx \in
               {P2(nx) : nx \in
               {P1(nx) : nx \in {x}}}}}}}}}}})

\* a 4x4 transformation matrix as its rotation rows and its translation row
worldMatrix(x, n) == [rot |-> worldRotation(x, n), tr |-> xformWs(x, n)]
\* A * B
TMul(A, B) ==
    CHOOSE o \in {[rot |-> MMul(X.rot, Y.rot), tr |-> RVAdd(RVMul(X.tr, Y.rot), Y.tr)] :
                     X \in {A}, Y \in {B}} : TRUE
\* A.inverse()
TInverse(A) ==
    CHOOSE o \in {[rot |-> MInverse(X.rot), tr |-> RVNeg(RVMul(X.tr, MInverse(X.rot)))] :
                     X \in {A}} : TRUE

\* calculateUpVecterPosition(startJoint, upJoint, offsetMatrix)
calculateUpVecterPosition(x, startJoint, upJoint, offsetMatrix) ==
    IF ~Ok(x) THEN x
    ELSE setTranslate(x, upJoint,
                      TMul(TMul(offsetMatrix, worldMatrix(x, startJoint)),
                           TInverse(worldMatrix(x, x.parent[upJoint]))).tr)

\* the node names of setupNonFlipTwistChain
dotProductJointName(startJoint, startJointParent) ==
    lstripJO(startJoint) \o "Twist_" \o lstripJO(startJointParent)
dotProductNodeName(startJoint) == lstripJO(startJoint) \o "_DPN"
multMatrixNodeName(startJoint) == lstripJO(startJoint) \o "_MMN"
decomposeMatrixNodeName(startJoint) == lstripJO(startJoint) \o "_DMN"
tempDagPose1 == "tempDagPose1"

\* cmds.shadingNode(type, asUtility=True, name=n)
shadingNode(x, n) == IF Ok(x) THEN [x EXCEPT !.dg = @ \cup {n}] ELSE x

\* cmds.connectAttr(src, dst)
connectAttr(x, src, dst) == IF Ok(x) THEN [x EXCEPT !.conn = @ \cup {<<src, dst>>}] ELSE x

\* cmds.move(v.x, v.y, v.z, n, r=True, os=True): a relative move along the
\* axes of n
moveRelative(x, n, v) ==
    IF ~Ok(x) THEN x
    ELSE [x EXCEPT !.t[n] = RVAdd(@, RVMul(RVec(v), x.r[n]))]

\* the joints a pose of n holds: n and the joints below it
RECURSIVE Below(_, _)
Below(x, n) == {n} \cup UNION {Below(x, x.kids[n][i]) : i \in 1..Len(x.kids[n])}

\* cmds.dagPose(n, save=True, name=pose)
dagPoseSave(x, n, pose) ==
    IF ~Ok(x) THEN x
    ELSE [x EXCEPT !.poses = (pose :> [j \in Below(x, n) |-> [t |-> x.t[j], r |-> x.r[j]]])
                                @@ @]

\* cmds.dagPose(pose, restore=True)
dagPoseRestoreSkipped(x, pose) == x
dagPoseRestore(x, pose) ==
    IF ~Ok(x) THEN x
    ELSE [x EXCEPT !.t = [j \in DOMAIN @ |->
                             IF j \in DOMAIN x.poses[pose] THEN x.poses[pose][j].t ELSE @[j]],
                   !.r = [j \in DOMAIN @ |->
                             IF j \in DOMAIN x.poses[pose] THEN x.poses[pose][j].r ELSE @[j]]]

\* cmds.delete(pose)
deletePose(x, pose) ==
    IF ~Ok(x) THEN x
    ELSE [x EXCEPT !.poses = [p \in DOMAIN @ \ {pose} |-> @[p]]]

\* the value of dotProductNode.outputX: the dot product, normalized, of the
\* marker's position in the frame of the start joint and endJoint.t
outputX(x, startJoint, endJoint, dotProductJoint) ==
    RVDot(normal(TMul(worldMatrix(x, dotProductJoint),
                      TInverse(worldMatrix(x, startJoint))).tr),
          normal(x.t[endJoint]))

\* setDrivenKeys(): the three translate channels of upJoint keyed at the
\* current value of the driver
setDrivenKeys(x, startJoint, endJoint, upJoint) ==
    IF ~Ok(x) THEN x
    ELSE [x EXCEPT !.keys = Append(@, [joint |-> upJoint,
                                       driver |-> outputX(x, startJoint, endJoint,
                                                          x.py.dotProductJoint),
                                       translate |-> x.t[upJoint]])]

\* setupNonFlipTwistChain(startJoint, endJoint, upJoint, upAxis)
setupNonFlipTwistChain(x, startJoint, endJoint, upJoint, upAxis) ==
    LET marker(y) == y.py.dotProductJoint
        N0(y) == [y EXCEPT !.py = <<>>]
        N1(y) == IF listParent(y, startJoint) = <<>>
                 THEN Local(Local(y, "logged", "Failed to find the parent for angle marker."),
                            "returned", TRUE)
                 ELSE Local(y, "startJointParent", listParent(y, startJoint)[1])
        N2(y) == Local(y, "dotProductJoint",
                       dotProductJointName(startJoint, y.py.startJointParent))
        N3(y) == cmdsJoint(cmdsSelect(y, {}), marker(y))
        N4(y) == matchTransform(y, marker(y), startJoint)
        N5(y) == cmdsParent(y, marker(y), startJoint)
        N6(y) == setTranslate(y, marker(y), RVec(VZero))
        N7(y) == moveRelative(y, marker(y), <<-upAxis[1], -upAxis[2], -upAxis[3]>>)
        N8(y) == cmdsParent(y, marker(y), y.py.startJointParent)
        N9(y) == shadingNode(shadingNode(shadingNode(y, dotProductNodeName(startJoint)),
                                         multMatrixNodeName(startJoint)),
                             decomposeMatrixNodeName(startJoint))
        N10(y) == connectAttr(y, marker(y) \o ".worldMatrix",
                              multMatrixNodeName(startJoint) \o ".matrixIn[0]")
        N11(y) == connectAttr(y, startJoint \o ".worldInverseMatrix",
                              multMatrixNodeName(startJoint) \o ".matrixIn[1]")
        N12(y) == connectAttr(y, multMatrixNodeName(startJoint) \o ".matrixSum",
                              decomposeMatrixNodeName(startJoint) \o ".inputMatrix")
        N13(y) == connectAttr(y, decomposeMatrixNodeName(startJoint) \o ".outputTranslate",
                              dotProductNodeName(startJoint) \o ".input1")
        N14(y) == connectAttr(y, endJoint \o ".t", dotProductNodeName(startJoint) \o ".input2")
        N15(y) == Local(y, "offsetMatrix",
                        TMul(worldMatrix(y, upJoint), TInverse(worldMatrix(y, startJoint))))
        N16(y) == dagPoseSave(y, startJoint, tempDagPose1)
        N17(y) == setDrivenKeys(y, startJoint, endJoint, upJoint)
        N18(y) == [projectJointChainToPlane(y, startJoint, endJoint, upAxis, NoneV, FALSE)
                       EXCEPT !.py = y.py]
        N19(y) == calculateUpVecterPosition(y, startJoint, upJoint, y.py.offsetMatrix)
        N20(y) == dagPoseRestore(y, tempDagPose1)
        N21(y) == [projectJointChainToPlane(y, startJoint, endJoint, upAxis, NoneV, TRUE)
                       EXCEPT !.py = y.py]
        N22(y) == deletePose(y, tempDagPose1)
        N23(y) == Local(y, "return", marker(y))
        Body(y) == Result({N23(nx) : nx \in
                          {N22(nx) : nx \in
                          {N20(nx) : nx \in
                          {N17(nx) : nx \in
                          {N19(nx) : nx \in
                          {N21(nx) : nx \in
                          {N20(nx) : nx \in
                          {N17(nx) : nx \in
                          {N19(nx) : nx \in
                          {N18(nx) : nx \in
                          {N17(nx) : nx \in
                          {N16(nx) : nx \in
                          {N15(nx) : nx \in
                          {N14(nx) : nx \in
                          {N13(nx) : nx \in
                          {N12(nx) : nx \in
                          {N11(nx) : nx \in
                          {N10(nx) : nx \in
                          {N9(nx) : nx \in
                          {N8(nx) : nx \in
                          {N7(nx) : nx \in
                          {N6(nx) : nx \in
                          {N5(nx) : nx \in
                          {N4(nx) : nx \in
                          {N3(nx) : nx \in
                          {N2(nx) : nx \in {y}}}}}}}}}}}}}}}}}}}}}}}}}}})
        Run(y) == IF "returned" \in DOMAIN y.py THEN y ELSE Body(y)
    IN  Result({Run(nx) : nx \in
               {N1(nx) : nx \in
               {N0(nx) : nx \in {x}}}})

(***************************************************************************)
(* avg_push_joint.py: createAvgPushJointForFinger.                         *)
(***************************************************************************)
\* a joint of the name the push joint is given, left in the scene with a
\* locked, non-zero translation
LeftThumbMidPush == "LeftThumbMidPush"

\* base_name: the short name without the prefix 'JO' and the trailing digits
Digits == {"0", "1", "2", "3", "4", "5", "6", "7", "8", "9"}
\* s.startswith(p)
startswith(s, p) == Len(s) >= Len(p) /\ SubSeq(s, 1, Len(p)) = p
\* finger_short_name[2:] if finger_short_name.startswith('JO')
withoutJO(s) == IF startswith(s, JO) THEN SubSeq(s, 3, Len(s)) ELSE s
\* re.sub(r'\d+$', '', s)
RECURSIVE withoutTrailingDigits(_)
withoutTrailingDigits(s) ==
    IF s # <<>> /\ s[Len(s)] \in Digits
    THEN withoutTrailingDigits(SubSeq(s, 1, Len(s) - 1))
    ELSE s
baseName(j) == join(withoutTrailingDigits(withoutJO(chars(j))))
avgName(j) == baseName(j) \o "Avg"
pushName(j) == baseName(j) \o "Push"
\* 'Right' in finger_short_name or finger_short_name.startswith('JORight')
isRightSide(j) == j \in {JORightThumbBase, JORightThumbMid}

\* axis.upper()
upper(a) == CASE a = "x" -> "X" [] a = "y" -> "Y" [] a = "z" -> "Z"
\* the long name of the short attribute name attr + a
longName(attr, a) ==
    (CASE attr = "t" -> "translate" [] attr = "r" -> "rotate" [] attr = "s" -> "scale")
        \o upper(a)
LowerAxes == <<"x", "y", "z">>
UpperAxes == <<"X", "Y", "Z">>
Path(n, attr) == n \o "." \o attr


\* the attributes of a joint createNode makes: translate, rotate and
\* jointOrient 0, scale and radius 1
ZeroPaths(n) ==
    {Path(n, a \o UpperAxes[i]) : a \in {"translate", "rotate", "jointOrient"}, i \in 1..3}
OnePaths(n) == {Path(n, "scale" \o UpperAxes[i]) : i \in 1..3} \cup {Path(n, "radius")}
NewJointAttrs(N) ==
    [p \in UNION {ZeroPaths(n) \cup OnePaths(n) : n \in N} |->
        IF p \in UNION {ZeroPaths(n) : n \in N} THEN RZero ELSE ROne]

\* the hand before any average joint is made
HandScene ==
    [nodes |-> HandJoints \cup {LeftThumbMidPush},
     parent |-> [n \in HandJoints \cup {LeftThumbMidPush} |->
                    CASE n = JOLeftThumbMid -> JOLeftThumbBase
                      [] n = JORightThumbMid -> JORightThumbBase
                      [] OTHER -> WorldJ],
     val |-> (Path(LeftThumbMidPush, "translateY") :> RInt(2))
             @@ (Path(JOLeftThumbMid, "jointOrientZ") :> RInt(30))
             @@ (Path(JORightThumbMid, "jointOrientZ") :> RInt(-30))
             @@ (Path(JOLeftThumbMid, "rotateZ") :> RInt(20))
             @@ NewJointAttrs(HandJoints \cup {LeftThumbMidPush}),
     lock |-> {Path(LeftThumbMidPush, "translateY")},
     conn |-> {},
     ev |-> <<>>,
     py |-> <<>>,
     err |-> "none"]

\* cmds.objExists(name)
cmdsObjExists(x, n) == n \in x.nodes

\* ensure_joint(name): the joint of that name, made if there is none
ensure_joint(x, n) ==
    IF ~Ok(x) \/ cmdsObjExists(x, n) THEN x
    ELSE [x EXCEPT !.nodes = @ \cup {n},
                   !.parent = (n :> WorldJ) @@ @,
                   !.val = NewJointAttrs({n}) @@ @,
                   !.ev = Append(@, [op |-> "createNode", node |-> n])]

\* try: cmds.parent(n, p), except: pass
tryParent(x, n, p) == IF Ok(x) THEN [x EXCEPT !.parent[n] = p] ELSE x

\* if cmds.getAttr(at, lock=True): cmds.setAttr(at, lock=False)
unlock(x, at) == IF Ok(x) THEN [x EXCEPT !.lock = @ \ {at}] ELSE x

\* the attribute has an incoming connection
Connected(x, at) == \E c \in x.conn : c[2] = at

\* cmds.setAttr(at, v): refused on a locked or connected attribute
cmdsSetAttr(x, at, v) ==
    IF ~Ok(x) THEN x
    ELSE IF at \in x.lock \/ Connected(x, at)
    THEN [x EXCEPT !.err = "setAttr: The attribute is locked or connected: " \o at]
    ELSE [x EXCEPT !.val = (at :> v) @@ @,
                   !.ev = Append(@, [op |-> "setAttr", node |-> at, value |-> v])]

\* the three translate, rotate and scale channels of n unlocked
unlockChannels(x, n) ==
    LET U(y, attr, a) == unlock(y, Path(n, longName(attr, a)))
        T(y) == U(U(U(y, "t", "x"), "t", "y"), "t", "z")
        R(y) == U(U(U(y, "r", "x"), "r", "y"), "r", "z")
        S(y) == U(U(U(y, "s", "x"), "s", "y"), "s", "z")
    IN  Result({S(nx) : nx \in
               {R(nx) : nx \in
               {T(nx) : nx \in {x}}}})

\* the channels cmds.xform(n, ws=True, m=m) writes
MatchedPaths(n) == {Path(n, a \o UpperAxes[i]) : a \in {"translate", "rotate"}, i \in 1..3}
\* the value it writes on p: match is what the host computes, a
\* translation and a rotation
MatchedValue(n, match, p) ==
    LET i == CHOOSE k \in 1..3 : p \in {Path(n, "translate" \o UpperAxes[k]),
                                        Path(n, "rotate" \o UpperAxes[k])}
    IN  IF p = Path(n, "translate" \o UpperAxes[i]) THEN match.t[i] ELSE match.r[i]

\* cmds.xform(n, ws=True, m=m): the channels of n that are free are given
\* the local values that put n on m
xform(x, n, match) ==
    IF ~Ok(x) THEN x
    ELSE [x EXCEPT
            !.val = [p \in MatchedPaths(n) |->
                        IF Connected(x, p) \/ p \in x.lock THEN x.val[p]
                        ELSE MatchedValue(n, match, p)] @@ @,
            !.ev = Append(@, [op |-> "xform", node |-> n, value |-> match])]

\* cmds.setAttr(n + '.radius', 0.5)
radius == <<1, 2>>

\* for axis in ('X', 'Y', 'Z'): the jointOrient of src copied to n
copyJointOrient(x, n, src) ==
    LET C(y, axis) == cmdsSetAttr(unlock(y, Path(n, "jointOrient" \o axis)),
                              Path(n, "jointOrient" \o axis),
                              y.val[Path(src, "jointOrient" \o axis)])
        CX(y) == IF Ok(y) THEN C(y, "X") ELSE y
        CY(y) == IF Ok(y) THEN C(y, "Y") ELSE y
        CZ(y) == IF Ok(y) THEN C(y, "Z") ELSE y
    IN  Result({CZ(nx) : nx \in
               {CY(nx) : nx \in
               {CX(nx) : nx \in {x}}}})

\* for axis_attr in (...): the attribute unlocked and set to 0
zeroAttr(x, at) == cmdsSetAttr(unlock(x, at), at, RZero)
zeroRotate(x, n) ==
    LET ZX(y) == zeroAttr(y, Path(n, "rotateX"))
        ZY(y) == zeroAttr(y, Path(n, "rotateY"))
        ZZ(y) == zeroAttr(y, Path(n, "rotateZ"))
    IN  Result({ZZ(nx) : nx \in
               {ZY(nx) : nx \in
               {ZX(nx) : nx \in {x}}}})
zeroTranslateSkipped(x, n) == x
zeroTranslate(x, n) ==
    LET ZX(y) == zeroAttr(y, Path(n, "translateX"))
        ZY(y) == zeroAttr(y, Path(n, "translateY"))
        ZZ(y) == zeroAttr(y, Path(n, "translateZ"))
    IN  Result({ZZ(nx) : nx \in
               {ZY(nx) : nx \in
               {ZX(nx) : nx \in {x}}}})

\* cmds.createNode(type, name=n): a utility node
createNode(x, n) ==
    IF ~Ok(x) THEN x
    ELSE [x EXCEPT !.nodes = @ \cup {n},
                   !.parent = (n :> WorldJ) @@ @,
                   !.ev = Append(@, [op |-> "createNode", node |-> n])]

\* cmds.connectAttr(src, dst, f=True): any connection into dst is replaced
connectAttrForce(x, src, dst) ==
    IF ~Ok(x) THEN x
    ELSE [x EXCEPT !.conn = {c \in @ : c[2] # dst} \cup {<<src, dst>>},
                   !.ev = Append(@, [op |-> "connectAttr", node |-> dst, src |-> src])]

weightMdlName(j, driver_axis) == avgName(j) \o "_weight_" \o driver_axis \o "_mdl"
rmpName(j, driver_axis, distance_axis) ==
    avgName(j) \o "_r" \o driver_axis \o "_to_" \o pushName(j) \o "_t" \o distance_axis
        \o "_rmp"
invertMdlName(j, distance_axis) == pushName(j) \o "_t" \o distance_axis \o "_invert_mdl"

\* the defaults of the remap: input_min, input_max, output_min, output_max
input_min == 0
input_max == 90
output_min == 0
output_max == 5

\* createAvgPushJointForFinger(finger_joint, None, weight, driver_axis,
\* distance_axis, create_push=create_push); matchAvg and matchPush are the
\* local values the host finds for the two calls of cmds.xform
createAvgPushJointForFinger(x, finger_joint, weight, driver_axis, distance_axis, create_push, matchAvg, matchPush) ==
    LET avg_jnt == avgName(finger_joint)
        push_jnt == pushName(finger_joint)
        weight_mdl == weightMdlName(finger_joint, driver_axis)
        rmp == rmpName(finger_joint, driver_axis, distance_axis)
        invert_mdl == invertMdlName(finger_joint, distance_axis)
        rot_attr == Path(avg_jnt, "rotate" \o upper(driver_axis))
        translate_attr == Path(push_jnt, "translate" \o upper(distance_axis))
        A0(y) == [y EXCEPT !.py = <<>>]
        A1(y) == IF y.parent[finger_joint] = WorldJ
                 THEN [y EXCEPT !.err = "No parent joint found for: " \o finger_joint]
                 ELSE Local(y, "finger_parent", y.parent[finger_joint])
        A2(y) == ensure_joint(y, avg_jnt)
        A3(y) == IF Ok(y) THEN tryParent(y, avg_jnt, y.py.finger_parent) ELSE y
        A4(y) == xform(unlockChannels(y, avg_jnt), avg_jnt, matchAvg)
        A5(y) == cmdsSetAttr(y, Path(avg_jnt, "radius"), radius)
        A6(y) == copyJointOrient(y, avg_jnt, finger_joint)
        A7(y) == zeroRotate(y, avg_jnt)
        A8(y) == cmdsSetAttr(createNode(y, weight_mdl), Path(weight_mdl, "input2"), weight)
        A9(y) == connectAttrForce(y, Path(finger_joint, "rotate" \o upper(driver_axis)),
                                  Path(weight_mdl, "input1"))
        A10(y) == connectAttrForce(unlock(y, rot_attr), Path(weight_mdl, "output"), rot_attr)
        P1(y) == tryParent(ensure_joint(y, push_jnt), push_jnt, avg_jnt)
        P2(y) == xform(unlockChannels(y, push_jnt), push_jnt, matchPush)
        P3(y) == cmdsSetAttr(y, Path(push_jnt, "radius"), radius)
        P4(y) == copyJointOrient(y, push_jnt, avg_jnt)
        P5(y) == zeroTranslate(y, push_jnt)
        P6(y) == zeroRotate(y, push_jnt)
        P7(y) == createNode(y, rmp)
        P8(y) == cmdsSetAttr(cmdsSetAttr(y, Path(rmp, "inputMin"), RInt(input_min)),
                         Path(rmp, "inputMax"), RInt(input_max))
        P9(y) == cmdsSetAttr(cmdsSetAttr(y, Path(rmp, "outputMin"), RInt(output_min)),
                         Path(rmp, "outputMax"), RInt(output_max))
        P10(y) == connectAttrForce(y, rot_attr, Path(rmp, "inputValue"))
        P11(y) == unlock(y, translate_attr)
        P12(y) == IF isRightSide(finger_joint)
                  THEN cmdsSetAttr(createNode(y, invert_mdl), Path(invert_mdl, "input2"), RInt(-1))
                  ELSE y
        P13(y) == IF isRightSide(finger_joint)
                  THEN connectAttrForce(y, Path(rmp, "outValue"), Path(invert_mdl, "input1"))
                  ELSE y
        P14(y) == IF isRightSide(finger_joint)
                  THEN connectAttrForce(y, Path(invert_mdl, "output"), translate_attr)
                  ELSE connectAttrForce(y, Path(rmp, "outValue"), translate_attr)
        Push(y) == IF ~create_push THEN Local(y, "return", <<avg_jnt, NoneJ>>)
                   ELSE Local(Result({P14(nx) : nx \in
                                     {P13(nx) : nx \in
                                     {P12(nx) : nx \in
                                     {P11(nx) : nx \in
                                     {P10(nx) : nx \in
                                     {P9(nx) : nx \in
                                     {P8(nx) : nx \in
                                     {P7(nx) : nx \in
                                     {P6(nx) : nx \in
                                     {P5(nx) : nx \in
                                     {P4(nx) : nx \in
                                     {P3(nx) : nx \in
                                     {P2(nx) : nx \in
                                     {P1(nx) : nx \in {y}}}}}}}}}}}}}}}), "return", <<avg_jnt, push_jnt>>)
    IN  Result({Push(nx) : nx \in
               {A10(nx) : nx \in
               {A9(nx) : nx \in
               {A8(nx) : nx \in
               {A7(nx) : nx \in
               {A6(nx) : nx \in
               {A5(nx) : nx \in
               {A4(nx) : nx \in
               {A3(nx) : nx \in
               {A2(nx) : nx \in
               {A1(nx) : nx \in
               {A0(nx) : nx \in {x}}}}}}}}}}}}})

(***************************************************************************)
(* muscle_template.py: the bilateral muscle components, and muscle_ui.py:  *)
(* the window that tracks them.                                            *)
(*                                                                         *)
(* The components are built on a rig of their own (tp): the scene of       *)
(* muscle_bone.py with the groups of the trapezius and the deltoid of both *)
(* sides, the attribute connections, the Python objects of the components  *)
(* (comp, by side and class), the dictionary created_muscles of the window *)
(* (its keys, in insertion order), the last message box shown, the file    *)
(* written by the export, and the calls a handler has made (ev).           *)
(* The rig's joints stand where the positions add() computes are on the    *)
(* integer grid and every muscle has an exact length.                      *)
(***************************************************************************)
Sides == {"Left", "Right"}
Classes == {"Trapezius", "Deltoid"}
Regions == <<"A", "B", "C">>
\* f"{current_side}{muscle_type}", and str(component)
CompName(side, cls) == side \o cls
CompNames == {CompName(s, c) : s \in Sides, c \in Classes}
\* '{0}{1}A'.format(self.side, self.name)
GroupName(side, name, region) == side \o name \o region
TGroups == {GroupName(s, c, Regions[i]) : s \in Sides, c \in Classes, i \in 1..3}

J(name) == Node(Rig, name)
JOHead1 == J("JOHead1")
JONeck1 == J("JONeck1")
JOBack2 == J("JOBack2")
JOBack3 == J("JOBack3")
Clavicle1(side) == J("JO" \o side \o "Clavicle1")
UpperArm1(side) == J("JO" \o side \o "UpperArm1")
Acromion1(side) == J(side \o "Acromion1")
ScapulaRoot1(side) == J(side \o "ScapulaRoot1")
UpperArm1Twist0(side) == J(side \o "UpperArm1Twist0")
UpperArm1Twist1(side) == J(side \o "UpperArm1Twist1")
SideJointSeq(side) ==
    <<Clavicle1(side), UpperArm1(side), Acromion1(side), ScapulaRoot1(side),
      UpperArm1Twist0(side), UpperArm1Twist1(side)>>
SideJoints(side) == {SideJointSeq(side)[k] : k \in 1..6}
SpineJoints == {JOHead1, JONeck1, JOBack2, JOBack3}
TemplateJoints == SpineJoints \cup SideJoints("Left") \cup SideJoints("Right")

\* the blueprint nodes of a group: generateMusclesFromBpObjects names them
\* f"bp{side}Trapezius{region}_muscleOrigin" and so on
BpNode(g, k) == Node(Rig, "bp" \o g \o "_" \o k)
BpOf(g) == [origin |-> BpNode(g, "muscleOrigin"), insertion |-> BpNode(g, "muscleInsertion"),
            center |-> BpNode(g, "muscleDriver")]
\* the blueprint of the left side is in the scene
BpGroups == {GroupName("Left", c, Regions[i]) : c \in Classes, i \in 1..3}
TemplateBpNodes == UNION {{BpOf(g).origin, BpOf(g).insertion, BpOf(g).center} : g \in BpGroups}

\* where the joints of the left side and of the spine stand
LeftPos(n) ==
    CASE n = JOHead1 -> <<0, 10, 2>>
      [] n = JONeck1 -> <<0, 8, -4>>
      [] n = JOBack3 -> <<0, -3, 0>>
      [] n = JOBack2 -> <<0, -8, -1>>
      [] n = Clavicle1("Left") -> <<4, 6, 0>>
      [] n = Acromion1("Left") -> <<4, 0, 0>>
      [] n = ScapulaRoot1("Left") -> <<4, -8, -8>>
      [] n = UpperArm1("Left") -> <<4, -1, 0>>
      [] n = UpperArm1Twist0("Left") -> <<4, -1, 0>>
      [] n = UpperArm1Twist1("Left") -> <<4, -2, 0>>
\* the blueprint of a group: the ends add() computes, the centre on the
\* insertion's side
BpPos(n) ==
    CASE n[2] = "bpLeftTrapeziusA_muscleOrigin" -> <<0, 9, -1>>
      [] n[2] = "bpLeftTrapeziusA_muscleInsertion" -> <<4, 1, 0>>
      [] n[2] = "bpLeftTrapeziusB_muscleOrigin" -> <<0, 0, -6>>
      [] n[2] = "bpLeftTrapeziusB_muscleInsertion" -> <<4, -2, -2>>
      [] n[2] = "bpLeftTrapeziusC_muscleOrigin" -> <<0, -3, -6>>
      [] n[2] = "bpLeftTrapeziusC_muscleInsertion" -> <<4, -6, -6>>
      [] n[2] = "bpLeftDeltoidA_muscleOrigin" -> <<4, 1, 0>>
      [] n[2] = "bpLeftDeltoidB_muscleOrigin" -> <<4, 0, 0>>
      [] n[2] = "bpLeftDeltoidC_muscleOrigin" -> <<4, -2, -2>>
      [] n[2] \in {"bpLeftDeltoidA_muscleInsertion", "bpLeftDeltoidB_muscleInsertion",
                   "bpLeftDeltoidC_muscleInsertion"} -> <<4, -2, 0>>
      [] OTHER -> <<4, -2, 1>>
TemplatePos ==
    [n \in TemplateJoints \cup TemplateBpNodes |->
        IF n \in TemplateBpNodes THEN BpPos(n)
        ELSE IF n \in SpineJoints \cup SideJoints("Left") THEN LeftPos(n)
        ELSE LET k == CHOOSE i \in 1..6 : SideJointSeq("Right")[i] = n
             IN  MirrorPos(LeftPos(SideJointSeq("Left")[k]))]

\* Python's None where a group is expected
NoObject == "None"
\* a component that has not been constructed
NoComp == [cls |-> "None"]

\* the rig before any muscle is made, the window open with nothing tracked
TemplateScene ==
    [scene |-> TemplateJoints \cup TemplateBpNodes,
     parent |-> [n \in TemplateJoints \cup TemplateBpNodes |-> World],
     cons |-> <<>>,
     pos |-> TemplatePos,
     curves |-> [g \in TGroups |-> <<>>],
     grp |-> [g \in TGroups |-> NoGroup],
     conn |-> {},
     comp |-> [c \in CompNames |-> NoComp],
     created_muscles |-> <<>>,
     file |-> <<>>,
     box |-> <<>>,
     ev |-> <<>>,
     py |-> <<>>,
     call |-> "start", on |-> "", made |-> [c \in CompNames |-> "none"],
     err |-> "none", hint |-> VZero, op |-> "template", driverGrp |-> None]

\* compressionFactor and stretchFactor of every group of the templates.
\* The templates pass 0.5 and 1.5; the scale 1/sqrt(f) of the driven keys
\* is exact for neither, and the model's arithmetic takes 1/4 and 9/4.
templateCompression == <<1, 4>>
templateStretch == <<9, 4>>

VTimes(a, k) == <<a[1] * k, a[2] * k, a[3] * k>>

\* self.<field> = v on a component
SetField(w, c, field, v) ==
    IF Ok(w) THEN [w EXCEPT !.comp[c] = (field :> v) @@ @] ELSE w
\* self.muscleJointGroups[group.muscleName] = group: a key that is present
\* keeps its place
Register(w, c, g) ==
    IF ~Ok(w) THEN w
    ELSE IF \E i \in 1..Len(w.comp[c].muscleJointGroups) : w.comp[c].muscleJointGroups[i] = g
    THEN w
    ELSE [w EXCEPT !.comp[c].muscleJointGroups = Append(@, g)]
\* an instrumented call: what the handler did, in order
Note(w, e) == [w EXCEPT !.ev = Append(@, e)]

\* BilateralMuscles.getJoint for every joint a constructor asks for
getJoint(w, joints) ==
    IF ~Ok(w) THEN w
    ELSE IF \E f \in DOMAIN joints : ~objExists(w, joints[f]) THEN Raise(w, "RuntimeError")
    ELSE w
\* BilateralMuscles.getOtherSide
getOtherSide(side) == IF side = "Left" THEN "Right" ELSE "Left"

\* BilateralMuscles.__init__
BilateralInit(cls, name, side) ==
    [cls |-> cls, name |-> name, side |-> side, allJoints |-> <<>>,
     muscleJointGroups |-> <<>>]

\* TrapeziusMuscles.__init__(side=side)
TrapeziusJoints(side) ==
    [headJoint |-> JOHead1, neckJoint |-> JONeck1, clavicalJoint |-> Clavicle1(side),
     spine2Joint |-> JOBack2, spine3Joint |-> JOBack3,
     acromionJoint |-> Acromion1(side), scapulaJoint |-> ScapulaRoot1(side)]
TrapeziusInit(w, c, side) ==
    LET x == getJoint(w, TrapeziusJoints(side))
    IN  IF ~Ok(x) THEN x
        ELSE [x EXCEPT !.comp[c] =
                 BilateralInit("Trapezius", "Trapezius", side) @@ TrapeziusJoints(side)
                 @@ [trapeziusA |-> NoObject, trapeziusB |-> NoObject, trapeziusC |-> NoObject]]

\* DeltoidMuscles.__init__(side=side)
DeltoidJoints(side) ==
    [clavicalJoint |-> Clavicle1(side), upperArmJoint |-> UpperArm1(side),
     acromionJoint |-> Acromion1(side), scapulaJoint |-> ScapulaRoot1(side),
     upperArmTwist0Joint |-> UpperArm1Twist0(side),
     upperArmTwist1Joint |-> UpperArm1Twist1(side)]
DeltoidInit(w, c, side) ==
    LET x == getJoint(w, DeltoidJoints(side))
    IN  IF ~Ok(x) THEN x
        ELSE [x EXCEPT !.comp[c] =
                 BilateralInit("Deltoid", "Deltoid", side) @@ DeltoidJoints(side)
                 @@ [deltoidA |-> NoObject, deltoidB |-> NoObject, deltoidC |-> NoObject]]

\* self.<field> = group; self.muscleJointGroups[group.muscleName] = group
Keep(w, c, field, g) == Register(SetField(w, c, field, g), c, g)
\* mc.xform(group.originLoc, translation=pos, worldSpace=True), and the
\* same on insertionLoc
PlaceLoc(w, g, loc, p) == IF Ok(w) THEN Xform(w, w.grp[g][loc], p) ELSE w

\* one group of add(): createFromAttachObjs, the attribute, the dictionary
\* entry and the two locators put on the ends computed
AddGroup(w, c, field, g, originAttachObj, insertionAttachObj, origin, insertion) ==
    Result({PlaceLoc(z, g, "insertionLoc", insertion) :
               z \in {PlaceLoc(y, g, "originLoc", origin) :
                         y \in {Keep(x, c, field, g) :
                                   x \in {createFromAttachObjs(w, g, originAttachObj,
                                                               insertionAttachObj,
                                                               templateCompression,
                                                               templateStretch,
                                                               <<>>, <<>>)}}}})
\* the groups of add(), one after the other: each entry names the
\* attribute, the group, the two attach objects and the two ends
RECURSIVE AddGroups(_, _, _, _)
AddGroups(w, c, groups, i) ==
    IF i > Len(groups) THEN w
    ELSE Result({AddGroups(x, c, groups, i + 1) :
                    x \in {AddGroup(w, c, groups[i].field, groups[i].g,
                                    groups[i].originAttachObj,
                                    groups[i].insertionAttachObj,
                                    groups[i].origin, groups[i].insertion)}})

\* TrapeziusMuscles.add: trapeziusA, trapeziusB and trapeziusC as the method
\* computes them; the offset of 0.02 along the neck's Z axis is below the
\* grid and left out
TrapeziusAdd(w, c) ==
    LET o == w.comp[c]
        neckJointPos == w.pos[o.neckJoint]
        headJointPos == w.pos[o.headJoint]
        clavicalJointPos == w.pos[o.clavicalJoint]
        acromoinJointPos == w.pos[o.acromionJoint]
        scapulaJointPos == w.pos[o.scapulaJoint]
        spine3JointPos == w.pos[o.spine3Joint]
        trapeziusAOrigin == VDivN(VAdd(neckJointPos, headJointPos), 2)
        trapeziusAInsertion ==
            VAdd(acromoinJointPos, VDivN(VSub(clavicalJointPos, acromoinJointPos), 6))
        averagePos == VDivN(VAdd(neckJointPos, scapulaJointPos), 2)
        trapeziusBOrigin == <<neckJointPos[1], averagePos[2], averagePos[3]>>
        offsetVector == VDivN(VSub(scapulaJointPos, acromoinJointPos), 4)
        trapeziusBInsertion == VAdd(offsetVector, acromoinJointPos)
        trapeziusCOrigin == <<spine3JointPos[1], spine3JointPos[2], trapeziusBOrigin[3]>>
        trapeziusCInsertion == VAdd(VTimes(offsetVector, 3), acromoinJointPos)
    IN  <<[field |-> "trapeziusA", g |-> GroupName(o.side, o.name, "A"),
           originAttachObj |-> o.neckJoint, insertionAttachObj |-> o.clavicalJoint,
           origin |-> trapeziusAOrigin, insertion |-> trapeziusAInsertion],
          [field |-> "trapeziusB", g |-> GroupName(o.side, o.name, "B"),
           originAttachObj |-> o.spine3Joint, insertionAttachObj |-> o.acromionJoint,
           origin |-> trapeziusBOrigin, insertion |-> trapeziusBInsertion],
          [field |-> "trapeziusC", g |-> GroupName(o.side, o.name, "C"),
           originAttachObj |-> o.spine2Joint, insertionAttachObj |-> o.acromionJoint,
           origin |-> trapeziusCOrigin, insertion |-> trapeziusCInsertion]>>

\* DeltoidMuscles.add: deltoidA, deltoidB and deltoidC as the method
\* computes them
DeltoidAdd(w, c) ==
    LET o == w.comp[c]
        clavicalJointPos == w.pos[o.clavicalJoint]
        acromoinJointPos == w.pos[o.acromionJoint]
        upperArmTwist1JointPos == w.pos[o.upperArmTwist1Joint]
        scapulaJointPos == w.pos[o.scapulaJoint]
        deltoidAOrigin ==
            VAdd(acromoinJointPos, VDivN(VSub(clavicalJointPos, acromoinJointPos), 6))
        deltoidInsertion == upperArmTwist1JointPos
        deltoidBOrigin == acromoinJointPos
        deltoidCOrigin ==
            VAdd(VDivN(VSub(scapulaJointPos, acromoinJointPos), 4), acromoinJointPos)
    IN  <<[field |-> "deltoidA", g |-> GroupName(o.side, o.name, "A"),
           originAttachObj |-> o.clavicalJoint, insertionAttachObj |-> o.upperArmTwist1Joint,
           origin |-> deltoidAOrigin, insertion |-> deltoidInsertion],
          [field |-> "deltoidB", g |-> GroupName(o.side, o.name, "B"),
           originAttachObj |-> o.clavicalJoint, insertionAttachObj |-> o.upperArmTwist1Joint,
           origin |-> deltoidBOrigin, insertion |-> deltoidInsertion],
          [field |-> "deltoidC", g |-> GroupName(o.side, o.name, "C"),
           originAttachObj |-> o.scapulaJoint, insertionAttachObj |-> o.upperArmTwist1Joint,
           origin |-> deltoidCOrigin, insertion |-> deltoidInsertion]>>

\* one group of build(): createFromBlueprint, the attribute and the
\* dictionary entry
BuildGroup(w, c, field, g, bp, originAttachObj, insertionAttachObj) ==
    Result({Keep(x, c, field, g) :
               x \in {createFromBlueprint(w, g, bp.origin, bp.insertion, bp.center,
                                          originAttachObj, insertionAttachObj,
                                          templateCompression, templateStretch,
                                          <<>>, <<>>)}})
\* the groups of build(), one after the other; a group is built only when
\* nothing was raised before it
RECURSIVE BuildGroups(_, _, _, _)
BuildGroups(w, c, groups, i) ==
    IF i > Len(groups) \/ ~Ok(w) THEN w
    ELSE Result({BuildGroups(x, c, groups, i + 1) :
                    x \in {BuildGroup(w, c, groups[i].field, groups[i].g,
                                      BpOf(groups[i].g), groups[i].originAttachObj,
                                      groups[i].insertionAttachObj)}})

\* TrapeziusMuscles.build(side, bpTrapezius) after cls(side=side), o the new
\* component, the blueprint that of generateMusclesFromBpObjects
TrapeziusBuild(o, side) ==
    <<[field |-> "trapeziusA", g |-> GroupName(side, "Trapezius", "A"),
       originAttachObj |-> o.neckJoint, insertionAttachObj |-> o.clavicalJoint],
      [field |-> "trapeziusB", g |-> GroupName(side, "Trapezius", "B"),
       originAttachObj |-> o.spine3Joint, insertionAttachObj |-> o.acromionJoint],
      [field |-> "trapeziusC", g |-> GroupName(side, "Trapezius", "C"),
       originAttachObj |-> o.spine2Joint, insertionAttachObj |-> o.acromionJoint]>>

\* DeltoidMuscles.build(side, bpDeltoid) after cls(side=side)
DeltoidBuild(o, side) ==
    <<[field |-> "deltoidA", g |-> GroupName(side, "Deltoid", "A"),
       originAttachObj |-> o.clavicalJoint, insertionAttachObj |-> o.upperArmTwist1Joint],
      [field |-> "deltoidB", g |-> GroupName(side, "Deltoid", "B"),
       originAttachObj |-> o.clavicalJoint, insertionAttachObj |-> o.upperArmTwist1Joint],
      [field |-> "deltoidC", g |-> GroupName(side, "Deltoid", "C"),
       originAttachObj |-> o.scapulaJoint, insertionAttachObj |-> o.upperArmTwist1Joint]>>

\* mirrored.<field> = self.<field>.mirror(name, origin, insertion), and the
\* dictionary entry under the name of the group registered
MirrorGroup(w, m, field, registered, g, new, originAttachObj, insertionAttachObj) ==
    IF ~Ok(w) THEN w
    ELSE Result({IF Ok(y) THEN Register(y, m, y.comp[m][registered]) ELSE y :
                    y \in {SetField(x, m, field, new) :
                              x \in {IF g = NoObject THEN Raise(w, "AttributeError")
                                     ELSE mirror(w, g, new, originAttachObj,
                                                 insertionAttachObj)}}})
\* the groups of mirror(), one after the other
RECURSIVE MirrorGroups(_, _, _, _)
MirrorGroups(w, m, groups, i) ==
    IF i > Len(groups) \/ ~Ok(w) THEN w
    ELSE Result({MirrorGroups(x, m, groups, i + 1) :
                    x \in {MirrorGroup(w, m, groups[i].field, groups[i].registered,
                                       groups[i].g, groups[i].new,
                                       groups[i].originAttachObj,
                                       groups[i].insertionAttachObj)}})

\* TrapeziusMuscles.mirror after TrapeziusMuscles(side=otherSide): self is
\* o, the new component n
TrapeziusMirror(o, n) ==
    <<[field |-> "trapeziusA", registered |-> "trapeziusA", g |-> o.trapeziusA,
       new |-> GroupName(n.side, o.name, "A"),
       originAttachObj |-> n.neckJoint, insertionAttachObj |-> n.acromionJoint],
      [field |-> "trapeziusB", registered |-> "trapeziusB", g |-> o.trapeziusB,
       new |-> GroupName(n.side, o.name, "B"),
       originAttachObj |-> n.spine3Joint, insertionAttachObj |-> n.acromionJoint],
      [field |-> "trapeziusC", registered |-> "trapeziusC", g |-> o.trapeziusC,
       new |-> GroupName(n.side, o.name, "C"),
       originAttachObj |-> n.spine2Joint, insertionAttachObj |-> n.acromionJoint]>>

\* DeltoidMuscles.mirror after DeltoidMuscles(side=otherSide): after
\* deltoidC the dictionary entry written is that of deltoidB
DeltoidMirror(o, n) ==
    <<[field |-> "deltoidA", registered |-> "deltoidA", g |-> o.deltoidA,
       new |-> GroupName(n.side, o.name, "A"),
       originAttachObj |-> n.clavicalJoint, insertionAttachObj |-> n.upperArmTwist1Joint],
      [field |-> "deltoidB", registered |-> "deltoidB", g |-> o.deltoidB,
       new |-> GroupName(n.side, o.name, "B"),
       originAttachObj |-> n.clavicalJoint, insertionAttachObj |-> n.upperArmTwist1Joint],
      [field |-> "deltoidC", registered |-> "deltoidB", g |-> o.deltoidC,
       new |-> GroupName(n.side, o.name, "C"),
       originAttachObj |-> n.scapulaJoint, insertionAttachObj |-> n.upperArmTwist1Joint]>>

\* mc.parentConstraint(targets..., obj, weight=True, mo=True): obj keeps its
\* place while the targets keep theirs
parentConstraint(w, T, obj) ==
    IF ~Ok(w) THEN w
    ELSE IF ~((T \cup {obj}) \subseteq w.scene) THEN Raise(w, "ValueError")
    ELSE IF Conflict(w, obj, "parent") THEN Raise(w, "RuntimeError")
    ELSE LET c == ParentConstraintName(obj)
             old == IF c \in DOMAIN w.cons THEN w.cons[c].targets ELSE {}
         IN  [w EXCEPT
                 !.scene = @ \cup {c},
                 !.parent = (c :> obj) @@ @,
                 !.cons = (c :> [type |-> "parent", obj |-> obj,
                                 targets |-> old \cup T, offset |-> VZero,
                                 by |-> IF c \in DOMAIN w.cons THEN w.cons[c].by
                                        ELSE w.op]) @@ @]

\* dummyNode = mc.duplicate(n, name=n + '_dummy', parentOnly=True)[0]: a
\* copy of n alone, beside n
duplicate(w, n, name) ==
    IF ~Ok(w) THEN w
    ELSE IF n \notin w.scene THEN Raise(w, "ValueError")
    ELSE Local(CreateNode(w, UniqueName(w, n[1], name), w.parent[n], w.pos[n]),
               "dummyNode", UniqueName(w, n[1], name))

\* the attribute of dst has an incoming connection
IsDestination(w, dst) == \E c \in w.conn : c[2] = dst /\ c[1] \in w.scene
\* mc.connectAttr(src + '.tz', dst + '.tz'): refused on a destination that
\* is connected already
connectTz(w, src, dst) ==
    IF ~Ok(w) THEN w
    ELSE IF ~({src, dst} \subseteq w.scene) \/ IsDestination(w, dst)
    THEN Raise(w, "RuntimeError")
    ELSE [w EXCEPT !.conn = @ \cup {<<src, dst>>}]

\* for muscleJointGroup in self.muscleJointGroups.values():
\*     muscleJointGroup.update()
RECURSIVE UpdateEach(_, _, _)
UpdateEach(w, groups, i) ==
    IF i > Len(groups) \/ ~Ok(w) THEN w
    ELSE Result({UpdateEach(x, groups, i + 1) :
                    x \in {update(Note(w, [op |-> "update", on |-> groups[i]]),
                                  groups[i])}})
\* BilateralMuscles.finalize
BilateralFinalize(w, c) ==
    IF ~Ok(w) THEN w ELSE UpdateEach(w, w.comp[c].muscleJointGroups, 1)

\* for muscleJointGroup in self.muscleJointGroups.values():
\*     muscleJointGroup.delete()
RECURSIVE DeleteEach(_, _, _)
DeleteEach(w, groups, i) ==
    IF i > Len(groups) \/ ~Ok(w) THEN w
    ELSE Result({DeleteEach(x, groups, i + 1) :
                    x \in {delete(Note(w, [op |-> "delete", on |-> groups[i]]),
                                  groups[i])}})
\* BilateralMuscles.delete
BilateralDelete(w, c) ==
    IF ~Ok(w) THEN w ELSE DeleteEach(w, w.comp[c].muscleJointGroups, 1)

\* mc.delete(group.mainAimConstraint);
\* self.mainAimConstraint = mc.aimConstraint(group.muscleInsertion,
\*                                           group.muscleBase, ...)
\* the handle is stored on the component, that of the group is left as it is
ReplaceAim(w, c, g) ==
    LET R1(x) == IF g = NoObject THEN Raise(x, "AttributeError") ELSE x
        R2(x) == IF Ok(x) THEN mcDelete(x, x.grp[g].mainAimConstraint) ELSE x
        R3(x) == SetField(aimConstraint(x, muscleInsertion(g), muscleBase(g)), c,
                          "mainAimConstraint", <<AimConstraintName(muscleBase(g))>>)
    IN  IF ~Ok(w) THEN w ELSE Result({R3(nx) : nx \in
                                     {R2(nx) : nx \in
                                     {R1(nx) : nx \in {w}}}})

\* TrapeziusMuscles.finalize
TrapeziusFinalize(w, c) ==
    LET o == w.comp[c]
        F1(x) == BilateralFinalize(x, c)
        F2(x) == ReplaceAim(x, c, o.trapeziusA)
        F3(x) == parentConstraint(x, {o.neckJoint, o.headJoint}, muscleOrigin(o.trapeziusA))
        F4(x) == parentConstraint(x, {o.spine3Joint, o.spine2Joint},
                                  muscleOrigin(o.trapeziusC))
    IN  IF ~Ok(w) THEN w ELSE Result({F4(nx) : nx \in
                                     {F3(nx) : nx \in
                                     {F2(nx) : nx \in
                                     {F1(nx) : nx \in {w}}}}})

\* DeltoidMuscles.finalize
DeltoidFinalize(w, c) ==
    LET o == w.comp[c]
        F1(x) == BilateralFinalize(x, c)
        F2(x) == ReplaceAim(x, c, o.deltoidA)
        F3(x) == ReplaceAim(x, c, o.deltoidB)
        F4(x) == ReplaceAim(x, c, o.deltoidC)
        F5(x) == SetField(pointConstraint(x, {muscleOffset(o.deltoidA),
                                              muscleOffset(o.deltoidC)},
                                          muscleOffset(o.deltoidB), TRUE),
                          c, "deltoidBConstraint",
                          <<PointConstraintName(muscleOffset(o.deltoidB))>>)
        F6(x) == duplicate(x, muscleOffset(o.deltoidC), "muscleOffset_dummy")
        F7(x) == IF Ok(x) THEN pointConstraint(x, {o.upperArmJoint}, x.py.dummyNode, TRUE)
                 ELSE x
        F8(x) == IF Ok(x) THEN connectTz(x, x.py.dummyNode, muscleOffset(o.deltoidC))
                 ELSE x
    IN  IF ~Ok(w) THEN w
        ELSE Result({F8(nx) : nx \in
                    {F7(nx) : nx \in
                    {F6(nx) : nx \in
                    {F5(nx) : nx \in
                    {F4(nx) : nx \in
                    {F3(nx) : nx \in
                    {F2(nx) : nx \in
                    {F1(nx) : nx \in {w}}}}}}}}})

\* the methods of a component, by its class
classInit(w, c, cls, side) ==
    IF cls = "Trapezius" THEN TrapeziusInit(w, c, side) ELSE DeltoidInit(w, c, side)
\* muscle.add()
add(w, c) ==
    IF ~Ok(w) THEN w
    ELSE Result({AddGroups(x, c, groups, 1) :
                    x \in {w},
                    groups \in {IF w.comp[c].cls = "Trapezius" THEN TrapeziusAdd(w, c)
                                ELSE DeltoidAdd(w, c)}})
\* cls.build(side, bp)
build(w, c, cls, side) ==
    Result({IF ~Ok(x) THEN x
            ELSE BuildGroups(x, c, IF cls = "Trapezius" THEN TrapeziusBuild(x.comp[c], side)
                                   ELSE DeltoidBuild(x.comp[c], side), 1) :
               x \in {classInit(w, c, cls, side)}})
\* muscle.mirror(): self is c, the new component m
mirrorComponent(w, c, m) ==
    IF ~Ok(w) THEN w
    ELSE Result({IF ~Ok(x) THEN x
                 ELSE MirrorGroups(x, m, IF x.comp[c].cls = "Trapezius"
                                         THEN TrapeziusMirror(x.comp[c], x.comp[m])
                                         ELSE DeltoidMirror(x.comp[c], x.comp[m]), 1) :
                    x \in {classInit(w, m, w.comp[c].cls, getOtherSide(w.comp[c].side))}})
finalize(w, c) ==
    IF ~Ok(w) THEN w
    ELSE IF w.comp[c].cls = "Trapezius" THEN TrapeziusFinalize(w, c)
    ELSE DeltoidFinalize(w, c)

(***************************************************************************)
(* The state machine.                                                      *)
(***************************************************************************)
\* inputs
Points == {<<0, 0, 2>>, <<6, 0, 2>>, <<0, 8, 2>>}
MuscleLengths == {4}
Factors == {<<1, 4>>, <<1, 1>>, <<4, 1>>}
Offsets == {<<>>, <<1, 5, 2>>, <<3, 5, 0>>}
\* compressionFactor, stretchFactor, stretchOffset, compressionOffset
Params == [cf : Factors, sf : Factors, so : Offsets, co : Offsets]
\* the constructor's defaults, and the factors the templates use with an offset
DefaultParams == [cf |-> ROne, sf |-> ROne, so |-> <<>>, co |-> <<>>]
LifeParams == {DefaultParams, [cf |-> <<1, 4>>, sf |-> <<4, 1>>, so |-> <<1, 5, 2>>, co |-> <<>>]}

\* the world the next method runs on
W(hint, op) ==
    [scene |-> scene, parent |-> parent, cons |-> cons, pos |-> pos,
     curves |-> curves, grp |-> grp, err |-> "none", hint |-> hint, op |-> op,
     driverGrp |-> None]

\* what a finalized group amounts to: where its joints are, which
\* constraints hold them, and the driven keys of its output joint
Joints(g) == {muscleOrigin(g), muscleInsertion(g), muscleBase(g), muscleTip(g),
              muscleDriver(g), muscleOffset(g), muscleJoint(g)}
ObsIn(w, g) ==
    [joints |-> Joints(g) \cap w.scene,
     at |-> Restrict(w.pos, Joints(g)),
     cons |-> [c \in {c \in DOMAIN w.cons : w.cons[c].obj \in Joints(g)} |-> w.cons[c]],
     curves |-> w.curves[g]]

\* what has been done to each group since its last update(): "none",
\* "again" (that update() directly followed another one), "edit" (one
\* edit() and nothing else) or "other"; obs is what the last update() left
\* (recorded where keep is set); cycles counts the edit()-update() cycles
\* that have run back to back; given holds the stretchOffset and
\* compressionOffset the caller passed to the construction, and its name
Track(w, op, g, keep) ==
    [h \in Groups |->
        IF h # g THEN snap[h]
        ELSE IF op = "update" /\ Ok(w)
             THEN [snap[g] EXCEPT
                      !.since = IF @ \in {"none", "again"} THEN "again" ELSE "none",
                      !.obs = IF keep THEN ObsIn(w, g) ELSE <<>>,
                      !.cycles = IF snap[g].since = "edit"
                                 THEN (IF @ < MaxCycles THEN @ + 1 ELSE @)
                                 ELSE 0]
        ELSE IF op = "edit" /\ Ok(w) /\ snap[g].since \in {"none", "again"}
             THEN [snap[g] EXCEPT !.since = "edit"]
        ELSE [snap[g] EXCEPT !.since = "other", !.cycles = 0]]

\* the locators and pivot groups edit() has made for group g
LocatorKinds == {"muscleOrigin_loc", "muscleInsertion_loc", "muscleCenter_loc",
                 "muscleCenter_grp"}
LocatorsOf(S, g) == {n \in S : n[1] = g /\ n[2] \in LocatorKinds}
\* those of them the group no longer tracks: left behind by an edit() that
\* was entered while the group was already in edit mode
Orphans(S, f, g) ==
    {n \in LocatorsOf(S, g) :
        /\ n \notin {f.originLoc, f.insertionLoc, f.centerLoc}
        /\ ~(n[2] = "muscleCenter_grp" /\ f.centerLoc \in S /\ n[3] = f.centerLoc[3])}

(***************************************************************************)
(* State predicates about a group.                                         *)
(***************************************************************************)

\* the point constraint on joint has a locator among its targets
LocatorBinding(joint) ==
    /\ PointConstraintName(joint) \in DOMAIN cons
    /\ \E t \in cons[PointConstraintName(joint)].targets : t[2] \in LocatorKinds

\* the edit-mode representation: locator bindings on origin, insertion, driver
EditBindingsPresent(g) ==
    /\ LocatorBinding(muscleOrigin(g))
    /\ LocatorBinding(muscleInsertion(g))
    /\ LocatorBinding(muscleDriver(g))
AnyEditBinding(g) ==
    \/ LocatorBinding(muscleOrigin(g))
    \/ LocatorBinding(muscleInsertion(g))
    \/ LocatorBinding(muscleDriver(g))

\* the driver's blend of base and tip
BlendPresent(g) ==
    /\ PointConstraintName(muscleDriver(g)) \in DOMAIN cons
    /\ {muscleBase(g), muscleTip(g)} \subseteq cons[PointConstraintName(muscleDriver(g))].targets
\* the base joint's aim constraint toward the insertion
AimPresent(g) ==
    /\ AimConstraintName(muscleBase(g)) \in DOMAIN cons
    /\ cons[AimConstraintName(muscleBase(g))].targets = {muscleInsertion(g)}
\* the finalized representation
FinalizedPresent(g) == AimPresent(g) /\ BlendPresent(g)

Deleted(g) == muscleOrigin(g) \notin scene /\ muscleInsertion(g) \notin scene

TrackedLocators(g) == {grp[g].originLoc, grp[g].insertionLoc, grp[g].centerLoc}
TrackedBindings(g) == {grp[g].ptConstraintsEdits[i] : i \in 1..Len(grp[g].ptConstraintsEdits)}

\* where a group stands: not constructed, deleted, in edit mode or finalized
Lifecycle(g) ==
    IF ~grp[g].made THEN "none"
    ELSE IF Deleted(g) THEN "deleted"
    ELSE IF EditBindingsPresent(g) THEN "edit"
    ELSE "final"

\* the state after a method has run (or raised partway) on group g
ApplyK(w, op, g, keep) ==
    /\ scene' = w.scene
    /\ parent' = w.parent
    /\ cons' = w.cons
    /\ pos' = w.pos
    /\ curves' = w.curves
    /\ grp' = w.grp
    /\ last' = [op |-> op, g |-> g, err |-> w.err, was |-> Lifecycle(g)]
    /\ snap' = Track(w, op, g, keep)
    /\ UNCHANGED toolVars

Apply(w, op, g) == ApplyK(w, op, g, FALSE)

\* the state after a construction of group g called with the offsets so,
\* co; a constructor that raises returns no object
ApplyC(w, op, g, so, co) ==
    /\ scene' = w.scene
    /\ parent' = w.parent
    /\ cons' = w.cons
    /\ pos' = w.pos
    /\ curves' = w.curves
    /\ grp' = IF Ok(w) THEN w.grp ELSE grp
    /\ last' = [op |-> op, g |-> g, err |-> w.err, was |-> Lifecycle(g)]
    /\ snap' = [snap EXCEPT ![g] = [since |-> "other", obs |-> <<>>, cycles |-> 0,
                                    given |-> IF Ok(w) THEN <<so, co, op>> ELSE <<>>]]
    /\ UNCHANGED toolVars

\* no call made yet
NoCall == [op |-> "start", err |-> "none", value |-> <<>>]

Init ==
    /\ scene = AttachObjs \cup BpNodes
    /\ parent = [n \in AttachObjs \cup BpNodes |-> World]
    /\ cons = <<>>
    /\ pos = RigPos
    /\ curves = [g \in Groups |-> <<>>]
    /\ grp = [g \in Groups |-> NoGroup]
    /\ last = [op |-> "start", g |-> "", err |-> "none", was |-> "none"]
    /\ snap = [g \in Groups |-> [since |-> "other", obs |-> <<>>, cycles |-> 0,
                                  given |-> <<>>]]
    /\ rb = LimbScene
    /\ ret = NoCall
    /\ av = HandScene
    /\ tp = TemplateScene

\* origin and insertion are distinct and their distance is exact
GoodSpan(a, b) == a # b /\ IsSquare(VLenSq(VSub(b, a)))

Construct(G, P) ==
    \E g \in G, len \in MuscleLengths, p \in P :
        /\ ~grp[g].made
        /\ ApplyC(construct(W(VZero, "init"), g, len, p.cf, p.sf, p.so, p.co), "init", g,
                  p.so, p.co)

CreateFromAttachObjs(G, P) ==
    \E g \in G, oa \in {Node(Rig, "JONeck1"), Missing},
       ia \in {Node(Rig, "JOLeftClavicle1")}, p \in P :
        /\ ~grp[g].made
        /\ oa \in AttachObjs => GoodSpan(pos[oa], pos[ia])
        /\ ApplyC(createFromAttachObjs(W(VZero, "createFromAttachObjs"), g, oa, ia,
                                       p.cf, p.sf, p.so, p.co),
                  "createFromAttachObjs", g, p.so, p.co)

CreateFromBlueprint(G, P) ==
    \E g \in G, p \in P,
       bpO \in {Node(Rig, "bpMuscle_muscleOrigin"), Missing},
       bpC \in {Node(Rig, "bpMuscle_muscleDriver"), Missing} :
        /\ ~grp[g].made
        /\ ApplyC(createFromBlueprint(W(VZero, "createFromBlueprint"), g, bpO,
                                      Node(Rig, "bpMuscle_muscleInsertion"),
                                      bpC, Node(Rig, "JONeck1"), Node(Rig, "JOLeftClavicle1"),
                                      p.cf, p.sf, p.so, p.co),
                  "createFromBlueprint", g, p.so, p.co)

\* group "L" is mirrored to the new group "R"
Mirror ==
    /\ grp["L"].made
    /\ ~grp["R"].made
    /\ ApplyC(mirror(W(VZero, "mirror"), "L", "R", Node(Rig, "JONeck1"),
                     Node(Rig, "JORightClavicle1")),
              "mirror", "R", grp["L"].stretchOffset, grp["L"].compressionOffset)

\* edit() on a group that has entered edit mode fewer than max times
Edit(G, max) ==
    \E g \in G :
        /\ grp[g].made
        /\ Len(grp[g].ptConstraintsEdits) < 3 * max
        /\ Apply(edit(W(VZero, "edit"), g), "edit", g)

Update(G, keep) ==
    \E g \in G :
        /\ grp[g].made
        /\ ApplyK(update(W(VZero, "update"), g), "update", g, keep)

Delete(G) ==
    \E g \in G :
        /\ grp[g].made
        /\ Apply(delete(W(VZero, "delete"), g), "delete", g)

\* a locator that alone drives its joint; locators are moved only on a
\* group that has left none behind
SoleTarget(n, joint) ==
    /\ n \in scene
    /\ PointConstraintName(joint) \in DOMAIN cons
    /\ cons[PointConstraintName(joint)].targets = {n}
    /\ Orphans(scene, grp[n[1]], n[1]) = {}

\* the user (or a template) moves a locator of the group: mc.xform(loc,
\* translation=p, worldSpace=True)
MoveEnd(G) ==
    \E g \in G, which \in {"origin", "insertion"}, p \in Points :
        LET loc == IF which = "origin" THEN grp[g].originLoc ELSE grp[g].insertionLoc
            other == IF which = "origin" THEN grp[g].insertionLoc ELSE grp[g].originLoc
            c == grp[g].centerLoc
            offPivot == c \in scene /\ pos[c] # pos[parent[c]]
        IN  /\ grp[g].made
            /\ SoleTarget(grp[g].originLoc, muscleOrigin(g))
            /\ SoleTarget(grp[g].insertionLoc, muscleInsertion(g))
            /\ p # pos[loc]
            /\ GoodSpan(p, pos[other])
            /\ \E hint \in (IF offPivot THEN Points ELSE {VZero}) :
                   Apply(setWorldPos(W(hint, "xform"), loc, p), "xform", g)

MoveCenter(G) ==
    \E g \in G, p \in Points :
        /\ grp[g].made
        /\ SoleTarget(grp[g].centerLoc, muscleDriver(g))
        /\ p # pos[grp[g].centerLoc]
        /\ Apply(setWorldPos(W(VZero, "xform"), grp[g].centerLoc, p), "xform", g)

Next ==
    \/ Construct({"L"}, LifeParams)
    \/ CreateFromAttachObjs({"L"}, LifeParams)
    \/ CreateFromBlueprint({"L"}, LifeParams)
    \/ Edit({"L"}, MaxEdits)
    \/ Update({"L"}, FALSE)
    \/ Delete({"L"})
    \/ MoveEnd({"L"})
    \/ MoveCenter({"L"})

Spec == Init /\ [][Next]_vars

\* the edit()-update() cycle on one group, with what each update() leaves
\* kept for comparison
CycleParams == {[cf |-> <<1, 4>>, sf |-> <<4, 1>>, so |-> <<1, 5, 2>>, co |-> <<3, 5, 0>>]}
NextCycle ==
    \/ Construct({"L"}, CycleParams)
    \/ Edit({"L"}, MaxCycles + 1)
    \/ Update({"L"}, TRUE)
    \/ MoveEnd({"L"})
    \/ MoveCenter({"L"})

SpecCycle == Init /\ [][NextCycle]_vars

\* every construction path, the mirror of "L" being "R"; the source is
\* shaped before it is mirrored
NextMirror ==
    \/ Construct({"L"}, LifeParams)
    \/ CreateFromAttachObjs({"L"}, LifeParams)
    \/ CreateFromBlueprint({"L"}, LifeParams)
    \/ Update({"L", "R"}, FALSE)
    \/ ~grp["R"].made /\ MoveEnd({"L"})
    \/ ~grp["R"].made /\ MoveCenter({"L"})
    \/ Mirror

SpecMirror == Init /\ [][NextMirror]_vars

\* the driven keys over every combination of factors and offsets
NextSDK ==
    \/ Construct({"L"}, Params)
    \/ CreateFromAttachObjs({"L"}, Params)
    \/ CreateFromBlueprint({"L"}, Params)
    \/ Update({"L"}, FALSE)
    \/ MoveEnd({"L"})

SpecSDK == Init /\ [][NextSDK]_vars

Made == {g \in Groups : grp[g].made}
\* the finalized rig of group g in the current state
Obs(g) == ObsIn([scene |-> scene, pos |-> pos, cons |-> cons, curves |-> curves], g)
\* the distance from base to tip in the current state
RestNow(g) == RInt(VLen(VSub(pos[muscleTip(g)], pos[muscleBase(g)])))
Constructors == {"init", "createFromAttachObjs", "createFromBlueprint", "mirror"}

(***************************************************************************)
(* C1.                                                                     *)
(***************************************************************************)
\* C1 as stated: in every reachable state of a constructed group exactly
\* one of the two representations is present (edit bindings, or aim
\* constraint with point blend): never both, never neither.
C1_AsStated ==
    \A g \in Made : EditBindingsPresent(g) # FinalizedPresent(g)

\* C1 amended: as long as delete() has not removed the group, exactly one
\* of the two representations is present, and it is present whole (no
\* binding beside the blend, no blend beside a binding); after delete()
\* neither is present.
C1_ExactlyOneUntilDeleted ==
    \A g \in Made :
        IF Deleted(g)
        THEN ~AnyEditBinding(g) /\ ~AimPresent(g) /\ ~BlendPresent(g)
        ELSE \/ EditBindingsPresent(g) /\ ~BlendPresent(g)
             \/ FinalizedPresent(g) /\ ~AnyEditBinding(g)

\* edit mode entered again from a finalized group: the swap has gone both ways
C1_Witness ==
    \E g \in Made : last.op = "edit" /\ last.g = g /\ last.err = "none"
                    /\ snap[g].since = "edit" /\ EditBindingsPresent(g)

(***************************************************************************)
(* C2.                                                                     *)
(***************************************************************************)
\* C2: a group returned by the constructor, createFromAttachObjs,
\* createFromBlueprint or mirror() is in edit mode: its three locators
\* exist, ptConstraintsEdits holds its three edit point bindings, each
\* binding its joint to its locator, and the driver's base/tip blend is gone.
C2_ConstructedInEdit ==
    \A g \in Groups :
        (last.op \in Constructors /\ last.g = g /\ last.err = "none") =>
            /\ grp[g].made
            /\ TrackedLocators(g) \subseteq scene
            /\ Cardinality(TrackedLocators(g)) = 3
            /\ grp[g].ptConstraintsEdits =
                   <<PointConstraintName(muscleOrigin(g)),
                     PointConstraintName(muscleInsertion(g)),
                     PointConstraintName(muscleDriver(g))>>
            /\ TrackedBindings(g) \subseteq DOMAIN cons
            /\ cons[PointConstraintName(muscleOrigin(g))].targets = {grp[g].originLoc}
            /\ cons[PointConstraintName(muscleInsertion(g))].targets = {grp[g].insertionLoc}
            /\ cons[PointConstraintName(muscleDriver(g))].targets = {grp[g].centerLoc}
            /\ ~BlendPresent(g)

\* mirror() has returned a group made from a finalized source
C2_Witness ==
    /\ last.op = "mirror" /\ last.g = "R" /\ last.err = "none"
    /\ Lifecycle("L") = "final"
    /\ EditBindingsPresent("R")

C4_SecondUpdateSame ==
    [][\A g \in Groups :
          (/\ last.op = "update" /\ last.g = g /\ last.err = "none"
           /\ last'.op = "update" /\ last'.g = g) =>
              /\ last'.err = "none"
              /\ Obs(g)' = Obs(g)
              /\ scene' = scene /\ parent' = parent /\ cons' = cons
              /\ pos' = pos /\ curves' = curves /\ grp' = grp]_vars

\* a second update() has run directly after a successful one
C4_Witness ==
    \E g \in Made :
        /\ last.op = "update" /\ last.g = g /\ last.err = "none"
        /\ snap[g].since = "again" /\ last.was = "final"
        /\ FinalizedPresent(g)

(***************************************************************************)
(* C5.                                                                     *)
(***************************************************************************)
\* C5: an update() that ends an edit()-update() cycle in which nothing was
\* moved does not fail and leaves the joint positions, the constraints and
\* the driven keys that the update() before the cycle had left; so a second
\* cycle ends as the first did.
C5_CycleSame ==
    [][\A g \in Groups :
          (last'.op = "update" /\ last'.g = g /\ snap[g].since = "edit") =>
              /\ last'.err = "none"
              /\ snap'[g].obs = snap[g].obs
              /\ snap'[g].obs = Obs(g)']_vars

\* two cycles have run back to back on a group whose locators had been moved
C5_Witness ==
    \E g \in Made :
        /\ snap[g].cycles = 2 /\ snap[g].obs = Obs(g)
        /\ last.op = "update" /\ last.err = "none"
        /\ RestNow(g) # RInt(grp[g].muscleLength)
        /\ FinalizedPresent(g)

Sampled(g) ==
    /\ g \in Made
    /\ last.g = g /\ last.err = "none" /\ last.op \in {"update", "init"}
    /\ DOMAIN curves[g] = Channels
\* the value of the key of channel ch at driver value d
KeyAt(g, ch, d) == (CHOOSE k \in curves[g][ch] : k[1] = d)[2]
HasKeyAt(g, ch, d) == \E k \in curves[g][ch] : k[1] = d
StretchSample(g) == RMul(RestNow(g), grp[g].stretchFactor)
CompressionSample(g) == RMul(RestNow(g), grp[g].compressionFactor)
\* component i of an offset the caller gave (None stands for no offset)
Component(offset, i) == IF offset = <<>> THEN RZero ELSE RInt(offset[i])

\* C7 as stated: for every choice of factors and offsets, after _addSDK the
\* curves of the output joint evaluate to scale 1 and translate 0 on all
\* three axes at the rest length.
C7_RestIsNeutral ==
    \A g \in Groups :
        Sampled(g) =>
            \A i \in 1..3 :
                /\ Eval(curves[g]["scale" \o Axes[i]], RestNow(g)) = ROne
                /\ Eval(curves[g]["translate" \o Axes[i]], RestNow(g)) = RZero

\* C8: in the keys authored by _addSDK the Y scale at the stretch sample is
\* the stretch factor s and the X and Z scales p there satisfy p*p*s = 1;
\* at the compression sample the Y scale is the compression factor c and
\* the X and Z scales q satisfy q*q*c = 1.
C8_VolumeKept ==
    \A g \in Groups :
        Sampled(g) =>
            /\ \A ch \in {"scaleX", "scaleY", "scaleZ"} :
                   HasKeyAt(g, ch, StretchSample(g)) /\ HasKeyAt(g, ch, CompressionSample(g))
            /\ KeyAt(g, "scaleY", StretchSample(g)) = grp[g].stretchFactor
            /\ KeyAt(g, "scaleY", CompressionSample(g)) = grp[g].compressionFactor
            /\ \A ch \in {"scaleX", "scaleZ"} :
                   LET p == KeyAt(g, ch, StretchSample(g))
                       q == KeyAt(g, ch, CompressionSample(g))
                   IN  /\ RMul(RMul(p, p), grp[g].stretchFactor) = ROne
                       /\ RMul(RMul(q, q), grp[g].compressionFactor) = ROne

\* update() has sampled a stretched and a compressed pose at a rest length
\* other than the one the group was built with
C8_Witness ==
    \E g \in Made :
        /\ Sampled(g) /\ last.op = "update"
        /\ grp[g].stretchFactor = <<4, 1>> /\ grp[g].compressionFactor = <<1, 4>>
        /\ RestNow(g) # RInt(grp[g].muscleLength)
        /\ KeyAt(g, "scaleX", StretchSample(g)) = <<1, 2>>
        /\ KeyAt(g, "scaleZ", CompressionSample(g)) = <<2, 1>>

\* C9 as stated: for a group built by createFromAttachObjs or
\* createFromBlueprint with stretchOffset S and compressionOffset C, the X
\* and Z translate keys equal the components of S at the stretch sample and
\* the components of C at the compression sample.
C9_FactoryOffsets ==
    \A g \in Groups :
        (/\ Sampled(g) /\ last.op = "update"
         /\ snap[g].given # <<>>
         /\ snap[g].given[3] \in {"createFromAttachObjs", "createFromBlueprint"}) =>
            \A i \in {1, 3} :
                /\ KeyAt(g, "translate" \o Axes[i], StretchSample(g))
                       = Component(snap[g].given[1], i)
                /\ KeyAt(g, "translate" \o Axes[i], CompressionSample(g))
                       = Component(snap[g].given[2], i)

(***************************************************************************)
(* C10.                                                                    *)
(***************************************************************************)
\* C10: mirror() leaves the new group's origin, insertion and center
\* locators (and the joints bound to them) at the world positions of the
\* source's origin, insertion and driver joints with X negated and Y, Z
\* kept, with the new origin joint and locator under the origin attach
\* object and the new insertion joint and locator under the insertion attach
\* object, and leaves the source's joints, constraints, driven keys and
\* fields as they were.
C10_MirrorNegatesX ==
    [][(last'.op = "mirror" /\ last'.err = "none") =>
          LET o == pos[muscleOrigin("L")]
              i == pos[muscleInsertion("L")]
              d == pos[muscleDriver("L")]
              f == grp'["R"]
          IN  /\ pos'[f.originLoc] = <<0 - o[1], o[2], o[3]>>
              /\ pos'[f.insertionLoc] = <<0 - i[1], i[2], i[3]>>
              /\ pos'[f.centerLoc] = <<0 - d[1], d[2], d[3]>>
              /\ pos'[muscleOrigin("R")] = pos'[f.originLoc]
              /\ pos'[muscleInsertion("R")] = pos'[f.insertionLoc]
              /\ pos'[muscleDriver("R")] = pos'[f.centerLoc]
              /\ parent'[f.originLoc] = Node(Rig, "JONeck1")
              /\ parent'[muscleOrigin("R")] = Node(Rig, "JONeck1")
              /\ parent'[f.insertionLoc] = Node(Rig, "JORightClavicle1")
              /\ parent'[muscleInsertion("R")] = Node(Rig, "JORightClavicle1")
              /\ Obs("L")' = Obs("L")
              /\ grp'["L"] = grp["L"]]_vars

\* mirror() has returned the image of a group that lies off the mirror plane
C10_Witness ==
    /\ last.op = "mirror" /\ last.g = "R" /\ last.err = "none"
    /\ pos[muscleInsertion("L")][1] > 0
    /\ pos[muscleDriver("L")][1] > 0
    /\ pos[grp["R"].insertionLoc][1] < 0
    /\ pos[grp["R"].centerLoc][1] < 0

(***************************************************************************)
(* The twist chains as a state machine: a chain is built on the limb as it *)
(* stands, by either function, with or without an end joint.               *)
(***************************************************************************)
TwistCounts == 1..MaxTwist
TwistAxes == {<<0, 1, 0>>, <<1, 0, 0>>}
EndChoices(startJoint) == ((LimbJoints \cup {NoneJ, JOGhost}) \ {startJoint})

\* one chain per limb is modelled: both functions take the names of their
\* joints from the start joint without asking whether they are free
NoChain == rb.nodes = LimbJoints

\* what a call leaves: the scene, and the call with what it raised or returned
Called(x, op, startJoint, endJoint, twistJointCount, twistAxis) ==
    /\ rb' = [x EXCEPT !.py = <<>>, !.err = "none", !.sel = {}]
    /\ ret' = [op |-> op, startJoint |-> startJoint, endJoint |-> endJoint,
               twistJointCount |-> twistJointCount, twistAxis |-> twistAxis,
               err |-> x.err,
               value |-> IF Ok(x) THEN x.py["return"] ELSE <<>>]
    /\ UNCHANGED <<rigVars, av, tp>>

SetupTwistJointChain ==
    \E startJoint \in LimbJoints, twistJointCount \in TwistCounts, twistAxis \in TwistAxes :
        \E endJoint \in EndChoices(startJoint) :
            /\ NoChain
            /\ Called(setupTwistJointChain(rb, startJoint, endJoint, twistJointCount,
                                           twistAxis, <<0, 0, 1>>),
                      "setupTwistJointChain", startJoint, endJoint, twistJointCount,
                      twistAxis)

SetupCounterTwistJointChain ==
    \E startJoint \in LimbJoints, twistJointCount \in TwistCounts, twistAxis \in TwistAxes :
        \E endJoint \in EndChoices(startJoint) :
            /\ NoChain
            /\ Called(setupCounterTwistJointChain(rb, startJoint, endJoint, twistJointCount,
                                                  twistAxis, <<1, 0, 0>>),
                      "setupCounterTwistJointChain", startJoint, endJoint,
                      twistJointCount, twistAxis)

NextRoll ==
    \/ SetupTwistJointChain
    \/ SetupCounterTwistJointChain

SpecRoll == Init /\ [][NextRoll]_vars

\* the last call was op and returned
Returned(op) == ret.op = op /\ ret.err = "none"
\* the orient constraint on the twist joint of index i of the chain returned
BlendOf(i) == rb.orient[orientConstraintName(ret.value[1][i + 1])]

(***************************************************************************)
(* C11.                                                                    *)
(***************************************************************************)
\* C11: after setupTwistJointChain with N >= 1 twist joints, every twist
\* joint i in 0..N-2 has an orient constraint with the two sources offset
\* joint (static) and value joint (live), the live weight is (i+1)/N, the
\* static weight is 1 - (i+1)/N and the two sum to 1; the last joint N-1 has
\* the value joint as its only source, with weight exactly 1.
C11_TwistWeightRamp ==
    Returned("setupTwistJointChain") =>
        LET N == ret.twistJointCount
            offset == twistOffsetJointName(ret.startJoint)
            value == twistValueJointName(ret.startJoint)
        IN  /\ Len(ret.value[1]) = N
            /\ \A i \in 0..(N - 1) :
                   orientConstraintName(ret.value[1][i + 1]) \in DOMAIN rb.orient
            /\ \A i \in 0..(N - 2) :
                   /\ BlendOf(i).targets = <<offset, value>>
                   /\ BlendOf(i).W[2] = Rat(i + 1, N)
                   /\ BlendOf(i).W[1] = RSub(ROne, Rat(i + 1, N))
                   /\ RAdd(BlendOf(i).W[1], BlendOf(i).W[2]) = ROne
            /\ BlendOf(N - 1).targets = <<value>>
            /\ BlendOf(N - 1).W = <<ROne>>

\* a chain of three twist joints has been built: two blended joints and the
\* last one, the first blend being 2/3 static and 1/3 live
C11_Witness ==
    /\ Returned("setupTwistJointChain")
    /\ ret.twistJointCount = 3
    /\ BlendOf(0).W = <<Rat(2, 3), Rat(1, 3)>>
    /\ BlendOf(1).W = <<Rat(1, 3), Rat(2, 3)>>
    /\ BlendOf(2).W = <<ROne>>

\* the scene setupTwistJointChain leaves when called on the limb with the
\* arguments of the last call
TwistReference ==
    setupTwistJointChain(LimbScene, ret.startJoint, ret.endJoint, ret.twistJointCount,
                         ret.twistAxis, <<0, 0, 1>>)
\* the sources and weights setupTwistJointChain gives its twist joint i
TwistBlend(i) ==
    LET c == TwistReference.orient[orientConstraintName(twistJointName(ret.startJoint, i))]
    IN  [targets |-> c.targets, W |-> c.W]

(***************************************************************************)
(* C12.                                                                    *)
(***************************************************************************)
\* C12 as stated: after setupCounterTwistJointChain twist joint 0 has static
\* weight 9/10 and live weight 1/10, and every twist joint i >= 1 has the
\* sources and weights setupTwistJointChain gives its joint i for the same
\* count.
C12_AsStated ==
    Returned("setupCounterTwistJointChain") =>
        /\ BlendOf(0).W = <<Rat(9, 10), Rat(1, 10)>>
        /\ \A i \in 1..(ret.twistJointCount - 1) :
               [targets |-> BlendOf(i).targets, W |-> BlendOf(i).W] = TwistBlend(i)

\* C12: after setupCounterTwistJointChain twist joint 0 blends the offset
\* joint (static) with weight 9/10 and the value joint (live) with weight
\* 1/10, and every twist joint i >= 1 has live weight i/N and static weight
\* 1 - i/N: the sources and weights setupTwistJointChain gives its joint
\* i - 1 for the same count.
C12_CounterWeightRamp ==
    Returned("setupCounterTwistJointChain") =>
        LET N == ret.twistJointCount
            offset == twistOffsetJointName(ret.startJoint)
            value == twistValueJointName(ret.startJoint)
        IN  /\ Len(ret.value[1]) = N
            /\ BlendOf(0).targets = <<offset, value>>
            /\ BlendOf(0).W = <<Rat(9, 10), Rat(1, 10)>>
            /\ \A i \in 1..(N - 1) :
                   /\ BlendOf(i).targets = <<offset, value>>
                   /\ BlendOf(i).W = <<RSub(ROne, Rat(i, N)), Rat(i, N)>>
                   /\ [targets |-> BlendOf(i).targets, W |-> BlendOf(i).W] = TwistBlend(i - 1)

\* a counter chain of three twist joints has been built: the fixed blend and
\* two joints on the ramp
C12_Witness ==
    /\ Returned("setupCounterTwistJointChain")
    /\ ret.twistJointCount = 3
    /\ BlendOf(0).W = <<Rat(9, 10), Rat(1, 10)>>
    /\ BlendOf(1).W = <<Rat(2, 3), Rat(1, 3)>>
    /\ BlendOf(2).W = <<Rat(1, 3), Rat(2, 3)>>

\* the end joint the chain of the last call was built to: the target of the
\* value joint's aim constraint
EndUsed == rb.aim[aimConstraintNameOf(twistValueJointName(ret.startJoint))].target
\* the world distance from the start joint to the end joint
ChainLength == RVLength(RVSub(xformWs(rb, EndUsed), xformWs(rb, ret.startJoint)))
\* the local offset of twist joint i along the twist axis, and off it
OffsetOf(i) == RVDot(rb.t[ret.value[1][i + 1]], RVec(ret.twistAxis))
OffAxis(i) == RVSub(rb.t[ret.value[1][i + 1]], RVScale(OffsetOf(i), RVec(ret.twistAxis)))

(***************************************************************************)
(* C13.                                                                    *)
(***************************************************************************)
\* C13: after setupTwistJointChain with chain length L and count N, twist
\* joint i sits at local offset (i+1) * (L * 0.98 / N) along the twist axis
\* and nowhere off it: the joints are evenly spaced, the last one is at
\* 0.98 * L, and every offset lies strictly between 0 (the start joint) and
\* L (the end joint).
C13_TwistOffsets ==
    Returned("setupTwistJointChain") =>
        LET N == ret.twistJointCount
            L == ChainLength
            step == RMul(RMul(L, Rat(98, 100)), Rat(1, N))
        IN  /\ \A i \in 0..(N - 1) :
                   /\ OffsetOf(i) = RMul(RInt(i + 1), step)
                   /\ OffAxis(i) = RVec(VZero)
                   /\ RLess(RZero, OffsetOf(i))
                   /\ RLess(OffsetOf(i), L)
            /\ \A i \in 0..(N - 2) : RSub(OffsetOf(i + 1), OffsetOf(i)) = step
            /\ OffsetOf(N - 1) = RMul(L, Rat(98, 100))

\* the chain of three from the shoulder to the elbow, nine units away: the
\* twist joints are at 2.94, 5.88 and 8.82 along Y
C13_Witness ==
    /\ Returned("setupTwistJointChain")
    /\ ret.startJoint = JOShoulder
    /\ ret.twistJointCount = 3
    /\ ChainLength = RInt(9)
    /\ rb.t[ret.value[1][1]] = <<RZero, Rat(294, 100), RZero>>
    /\ rb.t[ret.value[1][2]] = <<RZero, Rat(588, 100), RZero>>
    /\ rb.t[ret.value[1][3]] = <<RZero, Rat(882, 100), RZero>>

\* the error of a call that finds no end joint
NoEndError(startJoint) == "Cannot find a valid joint chain start with " \o startJoint
TwistOps == {"setupTwistJointChain", "setupCounterTwistJointChain"}

(***************************************************************************)
(* C14.                                                                    *)
(***************************************************************************)
\* C14: in every call of either twist function, the end joint is the one
\* passed or, when none is passed, the first child joint the start joint
\* had before the call; when that is no node of the scene (nothing passed
\* and no child joint, or a name that does not exist) the call raises the
\* missing-chain error, returns nothing and leaves the scene as it was; when
\* it is a node the call does not raise that error, and the chain it
\* returns is built to that end joint.
C14_EndJointResolved ==
    [][ret'.op \in TwistOps =>
            LET s == ret'.startJoint
                end == IF ret'.endJoint # NoneJ THEN ret'.endJoint
                       ELSE IF rb.kids[s] # <<>> THEN rb.kids[s][1]
                       ELSE NoneJ
            IN  IF end \notin rb.nodes
                THEN /\ ret'.err = NoEndError(s)
                     /\ ret'.value = <<>>
                     /\ rb' = rb
                ELSE /\ ret'.err # NoEndError(s)
                     /\ ret'.err = "none" => EndUsed' = end]_vars

\* a call on the elbow, which has no child joint, without an end joint has
\* raised and the limb is as it was
C14_Witness ==
    /\ ret.op \in TwistOps
    /\ ret.startJoint = JOElbow
    /\ ret.endJoint = NoneJ
    /\ ret.err = NoEndError(JOElbow)
    /\ rb = LimbScene

\* the error of a counter chain whose start joint has no parent joint
NoParentError(startJoint) == "Fialed to find the parent joint for startJoint: " \o startJoint
\* the joints setupCounterTwistJointChain makes before it asks for the parent
MadeBeforeParentCheck(startJoint, twistJointCount) ==
    {twistJointName(startJoint, i) : i \in 0..(twistJointCount - 1)}
        \cup {twistBasisJointName(startJoint), upJointName(startJoint)}

(***************************************************************************)
(* C15.                                                                    *)
(***************************************************************************)
\* C15: a call of setupCounterTwistJointChain on a start joint without a
\* parent joint (its end joint found) raises an error that names the start
\* joint and returns nothing; the N twist joints, the basis joint and the up
\* joint are new nodes of the scene after it, all under the start joint,
\* nothing else is new, and the scene has the aim and orient constraints it
\* had before and no other.
C15_NoParentNoRollback ==
    [][(/\ ret'.op = "setupCounterTwistJointChain"
        /\ rb.parent[ret'.startJoint] = WorldJ
        /\ ret'.err # NoEndError(ret'.startJoint)) =>
            LET s == ret'.startJoint
                new == MadeBeforeParentCheck(s, ret'.twistJointCount)
            IN  /\ ret'.err = NoParentError(s)
                /\ ret'.value = <<>>
                /\ new \cap rb.nodes = {}
                /\ Cardinality(new) = ret'.twistJointCount + 2
                /\ rb'.nodes = rb.nodes \cup new
                /\ \A n \in new : rb'.parent[n] = s
                /\ rb'.aim = rb.aim
                /\ rb'.orient = rb.orient]_vars

\* the counter chain of three was asked on the clavicle, the root of the
\* limb: the call has raised, five joints are left and no constraint
C15_Witness ==
    /\ ret.op = "setupCounterTwistJointChain"
    /\ ret.startJoint = JOClavicle
    /\ ret.twistJointCount = 3
    /\ ret.err = NoParentError(JOClavicle)
    /\ rb.nodes = LimbJoints \cup MadeBeforeParentCheck(JOClavicle, 3)
    /\ rb.aim = <<>> /\ rb.orient = <<>>


(***************************************************************************)
(* The projection and the non-flip setup, on the limb and on a limb that   *)
(* carries a counter twist chain, whose up joint the non-flip setup keys.  *)
(***************************************************************************)
UpAxes == {<<1, 0, 0>>, <<0, 0, 1>>}
PlaneNormals == {NoneV, <<3, 4, 0>>, <<0, 4, 3>>, <<0, 0, 1>>}
\* the chains of the limb: a joint and one of its children
Chains == {c \in LimbJoints \X LimbJoints : LimbScene.parent[c[2]] = c[1]}
ShoulderUp == upJointName(JOShoulder)

\* the counter twist chain of the shoulder, with the default end joint
SetupShoulderChain ==
    \E twistJointCount \in TwistCounts :
        /\ NoChain
        /\ ret.op = "start"
        /\ Called(setupCounterTwistJointChain(rb, JOShoulder, NoneJ, twistJointCount,
                                              <<0, 1, 0>>, <<1, 0, 0>>),
                  "setupCounterTwistJointChain", JOShoulder, NoneJ, twistJointCount,
                  <<0, 1, 0>>)

\* what a call of projectJointChainToPlane leaves: the scene, and the call
\* with its locals
Projected(x, c, upAxis, planeNormal, negative) ==
    /\ rb' = [x EXCEPT !.py = <<>>]
    /\ ret' = [op |-> "projectJointChainToPlane", startJoint |-> c[1], endJoint |-> c[2],
               upAxis |-> upAxis, planeNormal |-> planeNormal, negative |-> negative,
               err |-> x.err, value |-> x.py]
    /\ UNCHANGED <<rigVars, av, tp>>

ProjectJointChainToPlane ==
    \E c \in Chains, upAxis \in UpAxes, planeNormal \in PlaneNormals, negative \in BOOLEAN :
        /\ ret.op \in {"start", "setupCounterTwistJointChain"}
        /\ Projected(projectJointChainToPlane(rb, c[1], c[2], upAxis, planeNormal, negative),
                     c, upAxis, planeNormal, negative)

\* what a call of setupNonFlipTwistChain leaves
Keyed(x, c, upJoint, upAxis) ==
    /\ rb' = [x EXCEPT !.py = <<>>, !.sel = {}]
    /\ ret' = [op |-> "setupNonFlipTwistChain", startJoint |-> c[1], endJoint |-> c[2],
               upJoint |-> upJoint, upAxis |-> upAxis, err |-> x.err,
               logged |-> IF "logged" \in DOMAIN x.py THEN x.py.logged ELSE "none",
               value |-> IF "return" \in DOMAIN x.py THEN x.py["return"] ELSE NoneJ]
    /\ UNCHANGED <<rigVars, av, tp>>

SetupNonFlipTwistChain ==
    \E c \in Chains, upAxis \in UpAxes :
        /\ ShoulderUp \in rb.nodes
        /\ ret.op # "setupNonFlipTwistChain"
        /\ Keyed(setupNonFlipTwistChain(rb, c[1], c[2], ShoulderUp, upAxis),
                 c, ShoulderUp, upAxis)

NextNonFlip ==
    \/ SetupShoulderChain
    \/ ProjectJointChainToPlane
    \/ SetupNonFlipTwistChain

SpecNonFlip == Init /\ [][NextNonFlip]_vars


(***************************************************************************)
(* C19, C16: the plane projection and the three keyed poses.               *)
(***************************************************************************)
\* the locals of the last call of projectJointChainToPlane
Loc == ret.value
UpDotNormal == RVDot(Loc.startJointUpVec, Loc.planeNormal)
\* the chain as it points after the call
AimNow == RVSub(xformWs(rb, ret.endJoint), xformWs(rb, ret.startJoint))
Sign(negative) == IF negative THEN RInt(-1) ELSE ROne

\* C19: when the world up vector of the start joint is not perpendicular to
\* the plane normal n, d is (aimVec . n) / (up . n), the target direction is
\* end - d * up - start, negated when negative is asked for, and it is
\* perpendicular to n; when up is perpendicular to n the rotation is by +90
\* degrees, -90 when negative, about aimVec x up, which lays a chain that is
\* perpendicular to up along up, or against it when negative.
C19_ProjectionTarget ==
    Returned("projectJointChainToPlane") =>
        IF UpDotNormal # RZero
        THEN /\ RMul(Loc.d, UpDotNormal) = RVDot(Loc.aimVec, Loc.planeNormal)
             /\ Loc.targetVec =
                    RVScale(Sign(ret.negative),
                            RVSub(RVSub(Loc.endJointWs, RVScale(Loc.d, Loc.startJointUpVec)),
                                  Loc.startJointWs))
             /\ RVDot(Loc.targetVec, Loc.planeNormal) = RZero
        ELSE /\ Loc.quaternion.axis = normal(RVCross(Loc.aimVec, Loc.startJointUpVec))
             /\ Loc.quaternion.cos = RZero
             /\ Loc.quaternion.sin = Sign(ret.negative)
             /\ RVDot(Loc.aimVec, Loc.startJointUpVec) = RZero =>
                    AimNow = RVScale(RMul(Sign(ret.negative), length(Loc.aimVec)),
                                     Loc.startJointUpVec)

\* a negative projection on a plane the up vector is not perpendicular to,
\* with a chain that is not yet in the plane
C19_Witness ==
    /\ Returned("projectJointChainToPlane")
    /\ UpDotNormal # RZero
    /\ ret.negative
    /\ Loc.d # RZero
    /\ Loc.targetVec # Loc.aimVec

\* the non-flip setup returned its marker joint
Keys == rb.keys
NonFlipDone == Returned("setupNonFlipTwistChain") /\ ret.logged = "none"
\* the translation calculateUpVecterPosition gives the up joint once the
\* chain of scene x is projected on one side
KeyedPose(x, startJoint, endJoint, upJoint, upAxis, negative) ==
    calculateUpVecterPosition(
        projectJointChainToPlane(x, startJoint, endJoint, upAxis, NoneV, negative),
        startJoint, upJoint,
        TMul(worldMatrix(x, upJoint), TInverse(worldMatrix(x, startJoint)))).t[upJoint]

\* C16: setupNonFlipTwistChain keys exactly three poses of the up joint, each
\* at a driver value of its own, in this order: the pose it has on entry, the pose after the chain is
\* projected on the positive side, and the pose after the chain, restored
\* to its pose on entry, is projected on the negative side; on return the
\* start joint and the joints below it have the pose they had on entry and
\* the pose snapshot no longer exists.
C16_ThreeKeyedPoses ==
    [][NonFlipDone' =>
          /\ Len(Keys') = Len(Keys) + 3
          /\ SubSeq(Keys', 1, Len(Keys)) = Keys
          /\ LET s == ret'.startJoint
                 e == ret'.endJoint
                 u == ret'.upJoint
                 k(i) == Keys'[Len(Keys) + i]
             IN  /\ \A i \in 1..3 : k(i).joint = u
                 /\ Cardinality({k(i).driver : i \in 1..3}) = 3
                 /\ k(1).translate = rb.t[u]
                 /\ k(2).translate = KeyedPose(rb, s, e, u, ret'.upAxis, FALSE)
                 /\ k(3).translate = KeyedPose(rb, s, e, u, ret'.upAxis, TRUE)
                 /\ \A j \in Below(rb, s) : rb'.t[j] = rb.t[j] /\ rb'.r[j] = rb.r[j]
                 /\ tempDagPose1 \notin DOMAIN rb'.poses]_vars

\* the setup returned with three different poses keyed at three different
\* values of the driver, on a start joint that was turned before the call
C16_Witness ==
    /\ NonFlipDone
    /\ Len(Keys) = 3
    /\ Cardinality({Keys[i].translate : i \in 1..3}) = 3
    /\ Cardinality({Keys[i].driver : i \in 1..3}) = 3
    /\ rb.r[ret.startJoint] # MIdentity


(***************************************************************************)
(* aim.py: createAimTransformation.                                        *)
(***************************************************************************)
kXaxisVector == <<1, 0, 0>>
kYaxisVector == <<0, 1, 0>>
kZaxisVector == <<0, 0, 1>>

\* uVector = (targetPoint - aimPoint).normal()
uVector(aimPoint, targetPoint) == normal(RVSub(RVec(targetPoint), RVec(aimPoint)))
\* wVector = (uVector ^ vVector).normal(), vVector being
\* (upPoint - aimPoint).normal()
wVector(aimPoint, targetPoint, upPoint) ==
    normal(RVCross(uVector(aimPoint, targetPoint),
                   normal(RVSub(RVec(upPoint), RVec(aimPoint)))))
\* vVector = wVector ^ uVector
vVectorKept(aimPoint, targetPoint, upPoint) == normal(RVSub(RVec(upPoint), RVec(aimPoint)))
vVector(aimPoint, targetPoint, upPoint) ==
    RVCross(wVector(aimPoint, targetPoint, upPoint), uVector(aimPoint, targetPoint))

\* the rows of UVWMatrix: forward, up, right
UVWMatrix(aimPoint, targetPoint, upPoint) ==
    <<uVector(aimPoint, targetPoint), vVector(aimPoint, targetPoint, upPoint),
      wVector(aimPoint, targetPoint, upPoint)>>

\* the rows of TBNMatrix: aimVector, upVector, aimVector ^ upVector
TBNMatrix(aimVector, upVector) ==
    <<RVec(aimVector), RVec(upVector), RVCross(RVec(aimVector), RVec(upVector))>>

\* transformationMatrix = TBNMatrix.inverse() * UVWMatrix
transformationMatrixSwapped(TBN, UVW) == MMul(TBN, UVW)
transformationMatrix(TBN, UVW) == MMul(MInverse(TBN), UVW)

\* createAimTransformation(aimPoint, targetPoint, upPoint, aimVector,
\* upVector): the matrix returned, as its rotation rows and its translation
createAimTransformation(aimPoint, targetPoint, upPoint, aimVector, upVector) ==
    [rot |-> transformationMatrix(TBNMatrix(aimVector, upVector),
                                  UVWMatrix(aimPoint, targetPoint, upPoint)),
     tr |-> RVSub(RVec(aimPoint), RVec(VZero))]

\* the points and directions the function is applied to
AimPoints == {<<0, 0, 0>>, <<1, -2, 3>>}
AimOffsets ==
    {<<0, 1, 0>>, <<1, 0, 0>>, <<0, 0, 2>>, <<0, -3, 0>>, <<3, 4, 0>>, <<-4, 3, 0>>,
     <<0, 3, 4>>, <<4, 0, -3>>, <<5, 12, 0>>}
\* the local axes: unit and perpendicular; the first is the default
AimAxes == {<<kZaxisVector, kXaxisVector>>, <<kXaxisVector, kYaxisVector>>,
            <<kYaxisVector, kZaxisVector>>, <<kXaxisVector, kZaxisVector>>}
Plus(p, d) == <<p[1] + d[1], p[2] + d[2], p[3] + d[3]>>

\* the target and the up point are off the aim point, in two directions
NonDegenerate(aimPoint, targetPoint, upPoint) ==
    RVCross(RVSub(RVec(targetPoint), RVec(aimPoint)), RVSub(RVec(upPoint), RVec(aimPoint)))
        # RVec(VZero)
\* the unit vectors of the triple are rational
HasRoot(a) == RootIn(a[1], 0, a[1]) >= 0 /\ RootIn(a[2], 0, a[2]) >= 0
Representable(aimPoint, targetPoint, upPoint) ==
    LET c == RVCross(uVector(aimPoint, targetPoint),
                     normal(RVSub(RVec(upPoint), RVec(aimPoint))))
    IN  HasRoot(RVDot(c, c))

CreateAimTransformation ==
    \E aimPoint \in AimPoints, d1 \in AimOffsets, d2 \in AimOffsets, axes \in AimAxes :
        /\ ret.op = "start"
        /\ NonDegenerate(aimPoint, Plus(aimPoint, d1), Plus(aimPoint, d2))
        /\ Representable(aimPoint, Plus(aimPoint, d1), Plus(aimPoint, d2))
        /\ ret' = [op |-> "createAimTransformation", aimPoint |-> aimPoint,
                   targetPoint |-> Plus(aimPoint, d1), upPoint |-> Plus(aimPoint, d2),
                   aimVector |-> axes[1], upVector |-> axes[2], err |-> "none",
                   value |-> createAimTransformation(aimPoint, Plus(aimPoint, d1),
                                                     Plus(aimPoint, d2), axes[1], axes[2])]
        /\ UNCHANGED <<rigVars, rb, av, tp>>

NextAim == CreateAimTransformation

SpecAim == Init /\ [][NextAim]_vars

(***************************************************************************)
(* C17, C18: the matrix of createAimTransformation.                        *)
(***************************************************************************)
Aimed == Returned("createAimTransformation")
Row(i) == ret.value.rot[i]

\* C17: for a non-degenerate triple (aimPoint, targetPoint, upPoint) the
\* three rotation rows of the matrix createAimTransformation returns are of
\* unit length and pairwise orthogonal.
C17_AimRowsOrthonormal ==
    Aimed => \A i, j \in 1..3 : RVDot(Row(i), Row(j)) = (IF i = j THEN ROne ELSE RZero)

\* a triple off the origin whose up point is not at a right angle to the
\* target
C17_Witness ==
    /\ Aimed
    /\ ret.aimPoint # VZero
    /\ RVDot(RVSub(RVec(ret.targetPoint), RVec(ret.aimPoint)),
             RVSub(RVec(ret.upPoint), RVec(ret.aimPoint))) # RZero
    /\ Row(1) # RVec(kXaxisVector)

\* the direction from the aim point to the target, scaled to the distance
ToTarget == RVSub(RVec(ret.targetPoint), RVec(ret.aimPoint))

\* C18: the matrix createAimTransformation returns maps the local aim axis
\* on the direction of targetPoint - aimPoint and has the translation
\* aimPoint; for aimPoint (0,0,0), targetPoint (0,1,0), upPoint (1,0,0) and
\* the default axes the translation is (0,0,0) and the row of the aim axis,
\* local Z, is (0,1,0).
C18_AimAxisOnTarget ==
    Aimed =>
        /\ RVScale(length(ToTarget), RVMul(RVec(ret.aimVector), ret.value.rot)) = ToTarget
        /\ ret.value.tr = RVec(ret.aimPoint)
        /\ (/\ ret.aimPoint = <<0, 0, 0>>
            /\ ret.targetPoint = <<0, 1, 0>>
            /\ ret.upPoint = <<1, 0, 0>>
            /\ ret.aimVector = kZaxisVector
            /\ ret.upVector = kXaxisVector)
           => ret.value.tr = RVec(<<0, 0, 0>>) /\ Row(3) = RVec(<<0, 1, 0>>)

\* the scenario of the claim
C18_Witness ==
    /\ Aimed
    /\ ret.aimPoint = <<0, 0, 0>>
    /\ ret.targetPoint = <<0, 1, 0>>
    /\ ret.upPoint = <<1, 0, 0>>
    /\ ret.aimVector = kZaxisVector
    /\ ret.upVector = kXaxisVector
    /\ ret.value.rot = <<RVec(<<1, 0, 0>>), RVec(<<0, 0, -1>>), RVec(<<0, 1, 0>>)>>


(***************************************************************************)
(* createAvgPushJointForFinger on the joints of the hand.                  *)
(***************************************************************************)
DriverAxes == {"z", "x"}
DistanceAxes == {"y", "z"}
Weights == {<<1, 2>>}
\* what cmds.xform finds for the average joint: the place of the finger
AvgMatches == {[t |-> RVec(<<1, 2, 0>>), r |-> RVec(<<0, 0, 50>>)]}
\* and for the push joint below it: no translation, up to rounding
PushMatches ==
    {[t |-> RVec(<<0, 0, 0>>), r |-> RVec(<<0, 0, 10>>)],
     [t |-> <<RZero, <<1, 1000>>, <<-1, 1000>>>>, r |-> RVec(<<0, 0, 10>>)]}

\* what a call leaves: the scene, and the call with what it wrote, in order
Wrote(x, finger_joint, weight, driver_axis, distance_axis, create_push) ==
    /\ av' = [x EXCEPT !.py = <<>>, !.ev = <<>>, !.err = "none"]
    /\ ret' = [op |-> "createAvgPushJointForFinger", finger_joint |-> finger_joint,
               weight |-> weight, driver_axis |-> driver_axis,
               distance_axis |-> distance_axis, create_push |-> create_push,
               err |-> x.err, ev |-> x.ev,
               value |-> IF Ok(x) THEN x.py["return"] ELSE <<>>]
    /\ UNCHANGED <<rigVars, rb, tp>>

\* a call on a joint of the hand, as long as no call has raised
CreateAvgPushJointForFinger ==
    \E finger_joint \in HandJoints, weight \in Weights, driver_axis \in DriverAxes,
       distance_axis \in DistanceAxes, create_push \in BOOLEAN,
       matchAvg \in AvgMatches, matchPush \in PushMatches :
        /\ ret.err = "none"
        /\ Wrote(createAvgPushJointForFinger(av, finger_joint, weight, driver_axis,
                                            distance_axis, create_push, matchAvg, matchPush),
                 finger_joint, weight, driver_axis, distance_axis, create_push)

NextAvg == CreateAvgPushJointForFinger

SpecAvg == Init /\ [][NextAvg]_vars

(***************************************************************************)
(* C20: the order of the writes of createAvgPushJointForFinger.            *)
(***************************************************************************)
Ev == ret.ev
AvgCalled == ret.op = "createAvgPushJointForFinger"
AttrsOf(j, names) == {Path(j, a \o UpperAxes[i]) : a \in names, i \in 1..3}
\* the joint-orient copies on j, the channels of j set to 0, and the
\* connections to or from j, as places in the order of the writes
Copies(j) ==
    {i \in 1..Len(Ev) : Ev[i].op = "setAttr" /\ Ev[i].node \in AttrsOf(j, {"jointOrient"})}
Zeroed(j, names) ==
    {i \in 1..Len(Ev) : /\ Ev[i].op = "setAttr"
                        /\ Ev[i].node \in AttrsOf(j, names)
                        /\ Ev[i].value = RZero}
Connections(j) ==
    {i \in 1..Len(Ev) : /\ Ev[i].op = "connectAttr"
                        /\ \/ Ev[i].node \in AttrsOf(j, {"translate", "rotate"})
                           \/ Ev[i].src \in AttrsOf(j, {"translate", "rotate"})}
Before(S, T) == \A i \in S, k \in T : i < k
Connects == {i \in 1..Len(Ev) : Ev[i].op = "connectAttr"}
\* the writes on attribute at of joint j before place c
WritesBefore(j, at, c) ==
    {i \in 1..(c - 1) : \/ Ev[i].op = "setAttr" /\ Ev[i].node = at
                        \/ Ev[i].op = "xform" /\ Ev[i].node = j}
Max(S) == CHOOSE i \in S : \A k \in S : k <= i
\* at place c the last write on at was a setAttr of 0
ZeroAt(j, at, c) ==
    /\ WritesBefore(j, at, c) # {}
    /\ Ev[Max(WritesBefore(j, at, c))].op = "setAttr"
    /\ Ev[Max(WritesBefore(j, at, c))].value = RZero
AvgOf == avgName(ret.finger_joint)
PushOf == pushName(ret.finger_joint)
PushZeroed == {"translate", "rotate"}

\* C20: in every call the joint orient of the average joint is copied
\* before its rotate channels are set to 0, the joint orient of the push
\* joint before its translate and rotate channels are set to 0, and for
\* the average joint both come before any connection, for the push joint
\* before any connection to or from it; a call that
\* returns has made the three copies and set the three (six for the push
\* joint) channels to 0, and where it connects a translate channel of the
\* push joint the last write on each of the three translate channels was 0.
C20_OrientThenZeroThenConnect ==
    AvgCalled =>
        /\ Before(Copies(AvgOf), Zeroed(AvgOf, {"rotate"}))
        /\ Before(Zeroed(AvgOf, {"rotate"}), Connects)
        /\ Before(Copies(PushOf), Zeroed(PushOf, PushZeroed))
        /\ Before(Zeroed(PushOf, PushZeroed), Connections(PushOf))
        /\ ret.err = "none" =>
              /\ Cardinality(Copies(AvgOf)) = 3
              /\ Cardinality(Zeroed(AvgOf, {"rotate"})) = 3
              /\ Connections(AvgOf) # {}
              /\ ret.create_push =>
                    /\ Cardinality(Copies(PushOf)) = 3
                    /\ Cardinality(Zeroed(PushOf, PushZeroed)) = 6
                    /\ \E c \in Connections(PushOf) :
                          Ev[c].node = Path(PushOf, "translate" \o upper(ret.distance_axis))
                    /\ \A c \in Connections(PushOf), i \in 1..3 :
                          ZeroAt(PushOf, Path(PushOf, "translate" \o UpperAxes[i]), c)

\* a call on the right-hand finger returned both joints, the push joint
\* having been matched with a translation that is not 0
C20_Witness ==
    /\ AvgCalled
    /\ ret.err = "none"
    /\ ret.create_push
    /\ ret.finger_joint = JORightThumbMid
    /\ \E i \in 1..Len(Ev) :
          Ev[i].op = "xform" /\ Ev[i].node = PushOf /\ Ev[i].value.t # RVec(VZero)
    /\ Connections(PushOf) # {}


(***************************************************************************)
(* C21, C29: locked channels and repeated calls of                         *)
(* createAvgPushJointForFinger.                                            *)
(***************************************************************************)
\* the translate, rotate, scale and joint-orient channels of joint j
ChannelsOf(j) == AttrsOf(j, {"translate", "rotate", "scale", "jointOrient"})
\* the incoming connections of attribute at
Incoming(x, at) == {c \in x.conn : c[2] = at}

\* C21: every translate, rotate, scale or joint-orient channel of the
\* average and the push joint that is locked before a call of
\* createAvgPushJointForFinger is locked when the call returns.
C21_AsStated ==
    [][(AvgCalled' /\ ret'.err = "none") =>
          \A at \in av.lock :
              at \in ChannelsOf(avgName(ret'.finger_joint))
                        \cup ChannelsOf(pushName(ret'.finger_joint))
                  => at \in av'.lock]_vars

\* C29: a call of createAvgPushJointForFinger on a joint whose average
\* joint already exists returns, and after it there is one incoming
\* connection on the driver-axis rotation of the average joint and, with a
\* push joint, one on the distance-axis translation of the push joint.
C29_AsStated ==
    [][(AvgCalled' /\ avgName(ret'.finger_joint) \in av.nodes) =>
          /\ ret'.err = "none"
          /\ Cardinality(Incoming(av', Path(avgName(ret'.finger_joint),
                                            "rotate" \o upper(ret'.driver_axis)))) = 1
          /\ ret'.create_push =>
                Cardinality(Incoming(av', Path(pushName(ret'.finger_joint),
                                               "translate" \o upper(ret'.distance_axis)))) = 1]_vars


(***************************************************************************)
(* C28: long counter twist chains.  The chain is built on the upper arm    *)
(* and the forearm with the axes of config.py, for every count up to       *)
(* MaxChain.                                                               *)
(***************************************************************************)
MaxChain == 12
ChainCounts == 1..MaxChain
\* BIPED_UPPERARMS_TWIST_DATA: twistAxis, and upAxis of the left and of the
\* right side
ArmTwistAxis == <<0, 1, 0>>
ArmUpAxes == {<<1, 0, 0>>, <<-1, 0, 0>>}

SetupLongCounterChain ==
    \E startJoint \in {JOShoulder, JOElbow}, twistJointCount \in ChainCounts :
        \E upAxis \in ArmUpAxes, endJoint \in EndChoices(startJoint) :
            /\ NoChain
            /\ Called(setupCounterTwistJointChain(rb, startJoint, endJoint, twistJointCount,
                                                  ArmTwistAxis, upAxis),
                      "setupCounterTwistJointChain", startJoint, endJoint,
                      twistJointCount, ArmTwistAxis)

NextLongChain == SetupLongCounterChain
SpecLongChain == Init /\ [][NextLongChain]_vars

\* C28: after setupCounterTwistJointChain with N >= 1 twist joints the live
\* weight (that of the value joint) never decreases from one twist joint to
\* the next, from joint 0 to joint 1 as well, and on every twist joint the
\* live and the static weight sum to 1.
C28_AsStated ==
    Returned("setupCounterTwistJointChain") =>
        /\ \A i \in 0..(ret.twistJointCount - 1) :
               RAdd(BlendOf(i).W[1], BlendOf(i).W[2]) = ROne
        /\ \A i \in 0..(ret.twistJointCount - 2) :
               ~RLess(BlendOf(i + 1).W[2], BlendOf(i).W[2])


(***************************************************************************)
(* C30: the names of the helper joints.  The names are derived from joint  *)
(* names put together from a prefix, a stem and a number.                  *)
(***************************************************************************)
NamePrefixes ==
    {<<>>, JO, <<"J">>, <<"O">>, JO \o <<"J">>, JO \o <<"O">>, JO \o JO, <<"O", "J">>}
NameStems == {<<"a", "w">>, <<"r", "b", "i", "t">>, Left \o Thumb, Right \o Thumb}
NameNumbers == {<<>>, <<"1">>, <<"1", "2">>}
JointNames == {p \o s \o n : p \in NamePrefixes, s \in NameStems, n \in NameNumbers}

\* the names rollBone.py gives the helper joints of startJoint and the base
\* name avg_push_joint.py derives from it
NameHelpers ==
    \E startJoint \in JointNames, index \in 0..(MaxTwist - 1) :
        /\ ret.op = "start"
        /\ ret' = [op |-> "names", startJoint |-> startJoint, index |-> index,
                   err |-> "none",
                   value |-> [twist |-> lstripped(startJoint, "Twist" \o format(index)),
                              basis |-> lstripped(startJoint, "TwistBasis1"),
                              value |-> lstripped(startJoint, "TwistValue1"),
                              offset |-> lstripped(startJoint, "BasisOffset1"),
                              up |-> lstripped(startJoint, "TwistUp1"),
                              base |-> join(withoutJO(startJoint)),
                              avg |-> join(withoutTrailingDigits(withoutJO(startJoint)))
                                          \o "Avg"]]
        /\ UNCHANGED <<rigVars, rb, av, tp>>

NextNames == NameHelpers
SpecNames == Init /\ [][NextNames]_vars

\* the start joint's name without one leading 'JO', if it starts with it
OneJORemoved(s) == join(IF startswith(s, JO) THEN SubSeq(s, 3, Len(s)) ELSE s)

\* C30: the twist, basis, value, offset and up joint names are the start
\* joint's name without exactly one leading 'JO' (and with nothing else
\* removed from the front) followed by the fixed suffix, and that stem is
\* the base name createAvgPushJointForFinger derives before it strips the
\* trailing digits.
C30_AsStated ==
    ret.op = "names" =>
        LET stem == OneJORemoved(ret.startJoint)
        IN  /\ ret.value.twist = stem \o "Twist" \o format(ret.index)
            /\ ret.value.basis = stem \o "TwistBasis1"
            /\ ret.value.value = stem \o "TwistValue1"
            /\ ret.value.offset = stem \o "BasisOffset1"
            /\ ret.value.up = stem \o "TwistUp1"
            /\ ret.value.base = stem


(***************************************************************************)
(* The components driven directly, as a rigging script does.               *)
(***************************************************************************)
\* the world a call on the template rig runs on: nothing raised, nothing
\* noted, no locals, no message box; call names the method or handler
T(call) ==
    [tp EXCEPT !.err = "none", !.call = call, !.on = "", !.ev = <<>>, !.py = <<>>,
               !.box = <<>>]

\* the groups a component of that name makes, and their nodes in a scene
GroupsOf(c) == {g \in TGroups : \E i \in 1..3 : g = c \o Regions[i]}
NodesOfGroups(w, G) == {n \in w.scene : n[1] \in G}
\* no node of the component's groups is in the scene
NamesFree(w, c) == NodesOfGroups(w, GroupsOf(c)) = {}
\* the components in the scene are of one class
OneClass(w, cls) == \A c \in CompNames : w.comp[c] = NoComp \/ w.comp[c].cls = cls

\* the state of a group in a world
EditBindingsIn(w, g) ==
    \E j \in {muscleOrigin(g), muscleInsertion(g), muscleDriver(g)} :
        /\ PointConstraintName(j) \in DOMAIN w.cons
        /\ \E t \in w.cons[PointConstraintName(j)].targets : t[2] \in LocatorKinds
BlendIn(w, g) ==
    /\ PointConstraintName(muscleDriver(g)) \in DOMAIN w.cons
    /\ {muscleBase(g), muscleTip(g)} \subseteq w.cons[PointConstraintName(muscleDriver(g))].targets
\* the aim constraints on the base joint of g
AimsOn(w, g) == {c \in DOMAIN w.cons : w.cons[c].type = "aim" /\ w.cons[c].obj = muscleBase(g)}
FinalizedIn(w, g) ==
    /\ muscleJoint(g) \in w.scene
    /\ ~EditBindingsIn(w, g)
    /\ NodesOfGroups(w, {g}) \cap {n \in w.scene : n[2] \in LocatorKinds} = {}
    /\ BlendIn(w, g)
    /\ AimsOn(w, g) # {}
    /\ w.curves[g] # <<>>
\* the groups a component holds in its attributes
Owned(o) ==
    {o[f] : f \in DOMAIN o \cap {"trapeziusA", "trapeziusB", "trapeziusC",
                                 "deltoidA", "deltoidB", "deltoidC"}} \ {NoObject}
\* the groups the handler has called update() on
Updated(w) == {w.ev[i].on : i \in {k \in 1..Len(w.ev) : w.ev[k].op = "update"}}

\* the copies of an offset joint finalize() may leave in the scene
MaxDummies == 2
Dummies(w) == {n \in w.scene : n[2] = "muscleOffset_dummy"}

\* the component finalize() was called on, and how a component was made
Did(w, on) == tp' = [w EXCEPT !.on = on]
MadeBy(w, c, how) == IF Ok(w) THEN [w EXCEPT !.made[c] = how] ELSE w

\* a script builds the left side and mirrors it
PrimarySide == "Left"

\* muscle = cls(side=side); muscle.add()
AddComponent ==
    \E cls \in Classes :
        LET c == CompName(PrimarySide, cls)
        IN  /\ tp.comp[c] = NoComp /\ NamesFree(tp, c) /\ OneClass(tp, cls)
            /\ Did(MadeBy(add(classInit(T("add"), c, cls, PrimarySide), c), c, "add"), "")
            /\ UNCHANGED <<rigVars, rb, ret, av>>

\* muscle = cls.build(side, bp): the blueprint is that of the left side
BuildComponent ==
    \E cls \in Classes :
        LET c == CompName(PrimarySide, cls)
        IN  /\ tp.comp[c] = NoComp /\ NamesFree(tp, c) /\ OneClass(tp, cls)
            /\ Did(MadeBy(build(T("build"), c, cls, PrimarySide), c, "build"), "")
            /\ UNCHANGED <<rigVars, rb, ret, av>>

\* mirrored = muscle.mirror()
MirrorComponent ==
    \E c \in CompNames :
        /\ tp.comp[c] # NoComp
        /\ LET m == CompName(getOtherSide(tp.comp[c].side), tp.comp[c].cls)
           IN  /\ tp.comp[m] = NoComp /\ NamesFree(tp, m)
               /\ Did(MadeBy(mirrorComponent(T("mirror"), c, m), m, "mirror"), "")
        /\ UNCHANGED <<rigVars, rb, ret, av>>

\* muscle.finalize()
FinalizeComponent ==
    \E c \in CompNames :
        /\ tp.comp[c] # NoComp
        /\ Cardinality(Dummies(tp)) < MaxDummies
        /\ Did(finalize(T("finalize"), c), c)
        /\ UNCHANGED <<rigVars, rb, ret, av>>

\* finalize() has run to its end on the component
HasAttr(o, a) == a \in DOMAIN o
WasFinalized(o) == HasAttr(o, "mainAimConstraint")

\* group.update() on a group of a component that has been finalized
GroupUpdate ==
    \E c \in CompNames, g \in TGroups :
        /\ g \in GroupsOf(c)
        /\ tp.grp[g].made
        /\ WasFinalized(tp.comp[c])
        /\ tp' = update(T("update"), g)
        /\ UNCHANGED <<rigVars, rb, ret, av>>

NextTemplate ==
    AddComponent \/ BuildComponent \/ MirrorComponent \/ FinalizeComponent \/ GroupUpdate
SpecTemplate == Init /\ [][NextTemplate]_vars

\* C25: after finalize() has returned on a component, made by add(), build()
\* or mirror(), every group the component owns has been taken through
\* update() by that call and is finalized.
C25_AsStated ==
    (tp.call = "finalize" /\ tp.err = "none")
        => \A g \in Owned(tp.comp[tp.on]) : g \in Updated(tp) /\ FinalizedIn(tp, g)

\* the aim constraint of a group: one on the base joint, named by the
\* group's handle
AimHandled(w, g) ==
    /\ Cardinality(AimsOn(w, g)) = 1
    /\ w.grp[g].mainAimConstraint \in AimsOn(w, g)

\* C26: after any sequence of finalize() calls on components and update()
\* calls on groups, the base joint of every group carries exactly one aim
\* constraint and the group's mainAimConstraint names it.
C26_AsStated ==
    tp.call \in {"finalize", "update"}
        => \A g \in TGroups :
               (tp.grp[g].made /\ muscleBase(g) \in tp.scene) => AimHandled(tp, g)


(***************************************************************************)
(* muscle_ui.py: the handlers of the window.  created_muscles holds the    *)
(* names of the tracked components in insertion order, the component of a  *)
(* name is comp[name]; box holds the message boxes the handler has shown.  *)
(***************************************************************************)
RECURSIVE Without(_, _)
Without(s, k) ==
    IF s = <<>> THEN <<>>
    ELSE IF Head(s) = k THEN Without(Tail(s), k)
    ELSE <<Head(s)>> \o Without(Tail(s), k)
TrackedNames(w) == {w.created_muscles[i] : i \in 1..Len(w.created_muscles)}

\* self.created_muscles[muscle_name] = muscle
Tracked(w, name) ==
    IF ~Ok(w) \/ name \in TrackedNames(w) THEN w
    ELSE [w EXCEPT !.created_muscles = Append(@, name)]
\* del self.created_muscles[muscle_name]
Untracked(w, name) ==
    IF ~Ok(w) THEN w ELSE [w EXCEPT !.created_muscles = Without(@, name)]
\* a component nothing refers to any more is gone
Collected(w) ==
    [w EXCEPT !.comp = [c \in CompNames |-> IF c \in TrackedNames(w) THEN @[c] ELSE NoComp],
              !.made = [c \in CompNames |-> IF c \in TrackedNames(w) THEN @[c] ELSE "none"]]

\* self.show_error, self.show_success, QMessageBox.question
show(w, kind, text) == [w EXCEPT !.box = Append(@, [kind |-> kind, text |-> text])]
\* except Exception as e: self.show_error(...)
Caught(w, text) ==
    IF Ok(w) THEN w ELSE show([w EXCEPT !.err = "none"], "error", text \o w.err)

\* if muscle_name in self.created_muscles: the question, and on "Yes"
\* self.created_muscles[muscle_name].delete(); del self.created_muscles[muscle_name]
Replace(w, muscle_name) ==
    IF muscle_name \notin TrackedNames(w) THEN w
    ELSE Result({Untracked(y, muscle_name) :
                    y \in {BilateralDelete(x, muscle_name) :
                              x \in {show(w, "question", muscle_name)}}})
\* muscle = muscle_class(side=current_side); muscle.add();
\* self.created_muscles[muscle_name] = muscle; created_muscles.append(muscle_name)
CreateFirst(w, muscle_type, current_side, muscle_name) ==
    Result({Tracked(Local(MadeBy(y, muscle_name, "add"), "created_muscles",
                          Append(w.py.created_muscles, muscle_name)), muscle_name) :
               y \in {add(x, muscle_name) :
                         x \in {classInit(w, muscle_name, muscle_type, current_side)}}})
\* if created_muscles: original_muscle = self.created_muscles[created_muscles[0]];
\* muscle = original_muscle.mirror(); and the two entries as above
CreateMirrored(w, muscle_name) ==
    IF w.py.created_muscles = <<>> THEN w
    ELSE Result({Tracked(Local(MadeBy(y, muscle_name, "mirror"), "created_muscles",
                               Append(w.py.created_muscles, muscle_name)), muscle_name) :
                    y \in {mirrorComponent(w, w.py.created_muscles[1], muscle_name)}})

\* the body of the loop of create_muscle for one side
CreateSide(w, muscle_type, current_side, first, reply) ==
    LET muscle_name == CompName(current_side, muscle_type)
    IN  IF muscle_name \in TrackedNames(w) /\ reply = "No"
        THEN show(w, "question", muscle_name)
        ELSE Result({Caught(IF ~Ok(x) THEN x
                            ELSE IF current_side = first
                            THEN CreateFirst(x, muscle_type, current_side, muscle_name)
                            ELSE CreateMirrored(x, muscle_name),
                            "Failed to create " \o muscle_name \o ": ") :
                        x \in {Replace(w, muscle_name)}})

\* sides_to_create
SidesToCreate(side, auto_mirror) ==
    IF side = "Both" THEN <<"Left", "Right">>
    ELSE IF auto_mirror THEN <<side, getOtherSide(side)>>
    ELSE <<side>>

RECURSIVE CreateSides(_, _, _, _, _)
CreateSides(w, muscle_type, sides, i, reply) ==
    IF i > Len(sides) THEN w
    ELSE Result({CreateSides(x, muscle_type, sides, i + 1, reply) :
                    x \in {CreateSide(w, muscle_type, sides[i], sides[1], reply)}})

\* MuscleRigUI.create_muscle(muscle_type), the side and the mirror box as
\* the user has set them, reply the answer to "Replace it?"
create_muscle(w, muscle_type, side, auto_mirror, reply) ==
    Collected(Result({IF x.py.created_muscles # <<>>
                      THEN show(x, "success", "Successfully created " \o muscle_type)
                      ELSE x :
                         x \in {CreateSides(Local(w, "created_muscles", <<>>), muscle_type,
                                            SidesToCreate(side, auto_mirror), 1, reply)}}))

\* for muscle_name, muscle in self.created_muscles.items(): muscle.finalize()
RECURSIVE FinalizeEach(_, _, _)
FinalizeEach(w, names, i) ==
    IF i > Len(names) \/ ~Ok(w) THEN w
    ELSE Result({FinalizeEach(x, names, i + 1) :
                    x \in {finalize(Note(w, [op |-> "muscle.finalize", on |-> names[i]]),
                                    names[i])}})

\* MuscleRigUI.finalize_all_muscles
finalize_all_muscles(w) ==
    IF w.created_muscles = <<>> THEN show(w, "error", "No muscles to finalize!")
    ELSE Result({Caught(IF Ok(x) THEN show(x, "success", "All muscles finalized!") ELSE x,
                        "Error finalizing muscles: ") :
                    x \in {FinalizeEach(w, w.created_muscles, 1)}})

\* for muscle_name, muscle in self.created_muscles.items(): muscle.delete()
RECURSIVE DeleteEachMuscle(_, _, _)
DeleteEachMuscle(w, names, i) ==
    IF i > Len(names) \/ ~Ok(w) THEN w
    ELSE Result({DeleteEachMuscle(x, names, i + 1) :
                    x \in {BilateralDelete(Note(w, [op |-> "muscle.delete",
                                                    on |-> names[i]]),
                                           names[i])}})

\* MuscleRigUI.delete_all_muscles, reply the answer to "Are you sure?"
delete_all_muscles(w, reply) ==
    IF w.created_muscles = <<>> THEN show(w, "error", "No muscles to delete!")
    ELSE IF reply # "Yes" THEN show(w, "question", "Confirm Delete")
    ELSE Collected(Result(
             {Caught(IF Ok(x)
                     THEN show([x EXCEPT !.created_muscles = <<>>], "success",
                               "All muscles deleted!")
                     ELSE x,
                     "Error deleting muscles: ") :
                 x \in {DeleteEachMuscle(q, q.created_muscles, 1) :
                           q \in {show(w, "question", "Confirm Delete")}}}))

\* try: if not cmds.objExists(muscle.muscleOrigin): remove
\* except: remove
\* a component has the attributes its class sets, muscleOrigin is none of them
ToRemove(w, name) ==
    IF HasAttr(w.comp[name], "muscleOrigin")
    THEN ~objExists(w, w.comp[name].muscleOrigin)
    ELSE TRUE
RECURSIVE RemoveEach(_, _, _)
RemoveEach(w, names, i) ==
    IF i > Len(names) THEN w
    ELSE RemoveEach(IF ToRemove(w, names[i]) THEN Untracked(w, names[i]) ELSE w,
                    names, i + 1)

\* MuscleRigUI.refresh_ui
refresh_ui(w) ==
    LET R(x) == RemoveEach(x, x.created_muscles, 1)
        S(x) == show(x, "success", "UI refreshed.")
    IN  Collected(Result({S(nx) : nx \in
                         {R(nx) : nx \in {w}}}))

\* the component of a tracked name still has a group in the scene
ExistsInScene(w, name) == \E g \in GroupsOf(name) : muscleOrigin(g) \in w.scene

(***************************************************************************)
(* The window in use.                                                      *)
(***************************************************************************)
\* the side box is on "Left" or on "Both"
SideChoices == {"Left", "Both"}
Replies == {"Yes", "No"}
\* the muscle type whose button is used
ButtonTypes == {"Trapezius"}

\* a click on the button of a muscle type; the answer to "Replace it?" is
\* an input where the question is asked
CreateMuscle ==
    \E muscle_type \in ButtonTypes, side \in SideChoices, auto_mirror \in BOOLEAN,
       reply \in Replies :
        LET names == {CompName(SidesToCreate(side, auto_mirror)[i], muscle_type) :
                         i \in 1..Len(SidesToCreate(side, auto_mirror))}
        IN  /\ side = "Both" => ~auto_mirror
            /\ reply = "No" => names \cap TrackedNames(tp) # {}
            /\ \A name \in names : name \in TrackedNames(tp) \/ NamesFree(tp, name)
            /\ tp' = create_muscle(T("create_muscle"), muscle_type, side, auto_mirror,
                                   reply)
            /\ UNCHANGED <<rigVars, rb, ret, av>>

\* a click on "Finalize All"
FinalizeAllMuscles ==
    /\ Cardinality(Dummies(tp)) < MaxDummies
    /\ tp' = finalize_all_muscles(T("finalize_all_muscles"))
    /\ UNCHANGED <<rigVars, rb, ret, av>>

\* a click on "Delete All"
DeleteAllMuscles ==
    \E reply \in Replies :
        /\ tp' = delete_all_muscles(T("delete_all_muscles"), reply)
        /\ UNCHANGED <<rigVars, rb, ret, av>>

\* a click on "Refresh"
RefreshUi ==
    /\ tp.call # "refresh_ui"
    /\ tp' = refresh_ui(T("refresh_ui"))
    /\ UNCHANGED <<rigVars, rb, ret, av>>

\* the user deletes, in the host, the base joint of the first group of the
\* muscle tracked first
UserDeletes ==
    /\ tp.created_muscles # <<>>
    /\ muscleBase(tp.created_muscles[1] \o "A") \in tp.scene
    /\ tp' = mcDelete(T("user"), muscleBase(tp.created_muscles[1] \o "A"))
    /\ UNCHANGED <<rigVars, rb, ret, av>>

NextUI == CreateMuscle \/ FinalizeAllMuscles \/ DeleteAllMuscles \/ RefreshUi \/ UserDeletes
SpecUI == Init /\ [][NextUI]_vars

\* the handler has called the method on the tracked muscle
Processed(w, method, name) ==
    \E i \in 1..Len(w.ev) : w.ev[i] = [op |-> method, on |-> name]
\* the handler has shown an error
ErrorShown(w) == \E i \in 1..Len(w.box) : w.box[i].kind = "error"

\* C23: finalize_all_muscles and delete_all_muscles are not fail-fast: a
\* failure on one tracked muscle is reported and every remaining tracked
\* muscle is still processed.
C23_AsStated ==
    /\ tp.call = "finalize_all_muscles"
           => \A name \in TrackedNames(tp) : Processed(tp, "muscle.finalize", name)
    /\ (tp.call = "delete_all_muscles" /\ Len(tp.box) > 1)
           => \A name \in TrackedNames(tp) : Processed(tp, "muscle.delete", name)

\* C27: refresh_ui removes from created_muscles exactly the entries whose
\* muscle is no longer in the scene; a tracked muscle that is still in the
\* scene remains tracked.
C27_AsStated ==
    [][tp'.call = "refresh_ui"
          => TrackedNames(tp') = {name \in TrackedNames(tp) : ExistsInScene(tp, name)}]_vars

(***************************************************************************)
(* utils.py: the muscles written to a file and generated from it.  The     *)
(* file holds, by category and side, the world positions of the origin,    *)
(* insertion and driver joints found in the scene, keyed by node.  The     *)
(* categories whose classes are not built here have no node in the scene   *)
(* and are written empty.                                                  *)
(***************************************************************************)
Categories ==
    {"Trapezius", "LatissimusDorsi", "TerasMajor", "PectoralisMajor", "Deltoid", "Arms"}
Recorded(g) == {muscleOrigin(g), muscleInsertion(g), muscleDriver(g)}

\* getTrapeziusMuscles, getDeltoidMuscles and the like: the groups of a
\* side whose origin and insertion are found
getMuscles(w, cat, side) ==
    LET found == {g \in TGroups :
                     /\ \E i \in 1..3 : g = GroupName(side, cat, Regions[i])
                     /\ objExists(w, muscleOrigin(g))
                     /\ objExists(w, muscleInsertion(g))}
    IN  [n \in UNION {Recorded(g) : g \in found} |-> w.pos[n]]

\* exportMuscles(filePath)
exportMuscles(w) ==
    [w EXCEPT !.file = [cat \in Categories |-> [side \in Sides |-> getMuscles(w, cat, side)]]]

\* mc.xform(loc, translation=data.get(key), ws=True): None is no translation
Seed(w, loc, data, key) ==
    IF ~Ok(w) THEN w
    ELSE IF key \notin DOMAIN data THEN Raise(w, "TypeError")
    ELSE Xform(w, loc, data[key])

\* the locators generateMusclesFromFile moves for a side and the node each
\* is looked up by, in the order of the function
SeededLocs(side) ==
    [k \in 1..9 |->
        LET g == GroupName(side, "Trapezius", Regions[((k - 1) \div 3) + 1])
        IN  CASE k % 3 = 1 -> [g |-> g, loc |-> "originLoc", key |-> muscleOrigin(g)]
              [] k % 3 = 2 -> [g |-> g, loc |-> "insertionLoc", key |-> muscleInsertion(g)]
              [] OTHER -> [g |-> g, loc |-> "centerLoc", key |-> muscleDriver(g)]]
RECURSIVE SeedEach(_, _, _, _)
SeedEach(w, locs, data, i) ==
    IF i > Len(locs) \/ ~Ok(w) THEN w
    ELSE Result({SeedEach(x, locs, data, i + 1) :
                    x \in {Seed(w, w.grp[locs[i].g][locs[i].loc], data, locs[i].key)}})

\* the body of the loop of generateMusclesFromFile for one side
GenerateSide(w, side, data) ==
    IF ~Ok(w) THEN w
    ELSE Result({finalize(z, CompName(side, "Trapezius")) :
                    z \in {SeedEach(MadeBy(y, CompName(side, "Trapezius"), "add"),
                                    SeededLocs(side), data, 1) :
                              y \in {add(x, CompName(side, "Trapezius")) :
                                        x \in {TrapeziusInit(w, CompName(side, "Trapezius"),
                                                             side)}}}})
\* for side in trapeziusData.keys()
RECURSIVE GenerateSides(_, _, _, _)
GenerateSides(w, sides, trapeziusData, i) ==
    IF i > Len(sides) THEN w
    ELSE Result({GenerateSides(x, sides, trapeziusData, i + 1) :
                    x \in {GenerateSide(w, sides[i], trapeziusData[sides[i]])}})

\* generateMusclesFromFile(filePath): the file is read, the trapezius of the
\* sides it names is built, and nothing else of the file is looked at
generateMusclesFromFile(w) ==
    GenerateSides(w, <<"Left", "Right">>, w.file["Trapezius"], 1)

\* the muscles are made with the window: a click on the button of a type,
\* the side box on "Left" or "Both"
CreateForExport ==
    \E muscle_type \in Classes, side \in SideChoices :
        /\ \A i \in 1..Len(SidesToCreate(side, FALSE)) :
               LET name == CompName(SidesToCreate(side, FALSE)[i], muscle_type)
               IN  name \notin TrackedNames(tp) /\ NamesFree(tp, name)
        /\ tp' = create_muscle(T("create_muscle"), muscle_type, side, FALSE, "No")
        /\ UNCHANGED <<rigVars, rb, ret, av>>

\* exportMuscles(filePath) on a scene that holds a muscle
ExportMuscles ==
    /\ tp.created_muscles # <<>>
    /\ tp' = exportMuscles(T("exportMuscles"))
    /\ UNCHANGED <<rigVars, rb, ret, av>>

\* the rig is opened afresh; the file stays on disk
NewScene ==
    /\ tp.file # <<>>
    /\ tp.created_muscles # <<>>
    /\ tp' = [TemplateScene EXCEPT !.file = tp.file, !.call = "new"]
    /\ UNCHANGED <<rigVars, rb, ret, av>>

\* generateMusclesFromFile(filePath) on a scene without a trapezius
GenerateMusclesFromFile ==
    /\ tp.file # <<>>
    /\ \A side \in Sides : NamesFree(tp, CompName(side, "Trapezius"))
    /\ tp' = generateMusclesFromFile(T("generateMusclesFromFile"))
    /\ UNCHANGED <<rigVars, rb, ret, av>>

NextFile == CreateForExport \/ ExportMuscles \/ NewScene \/ GenerateMusclesFromFile
SpecFile == Init /\ [][NextFile]_vars

\* the group of a recorded node is in the scene, finalized, the node where
\* the file says
Rebuilt(w, n, p) == n \in w.scene /\ w.pos[n] = p /\ FinalizedIn(w, n[1])

\* C24: export followed by import is a round trip: for every category the
\* file holds, generateMusclesFromFile rebuilds the groups recorded, puts
\* them on the recorded positions and finalizes them.
C24_AsStated ==
    (tp.call = "generateMusclesFromFile" /\ tp.err = "none")
        => \A cat \in Categories, side \in Sides :
               \A n \in DOMAIN tp.file[cat][side] : Rebuilt(tp, n, tp.file[cat][side][n])

(***************************************************************************)
(* batchCreateAllAvgPush on the hand.                                      *)
(***************************************************************************)
\* fingers, when the caller gives none
DefaultFingers == <<"Thumb", "Index", "Middle", "Ring", "Pinky">>
digits == <<"Base", "Mid", "Tip">>
\* sides_to_process
SidesToProcess(side) == IF side = "Both" THEN <<"Left", "Right">> ELSE <<side>>

\* the joints of a side in the order the two loops visit them: the fingers
\* by digit, then the elbow and the knee
FingerCatalog(current_side, fingers) ==
    [k \in 1..(Len(fingers) * Len(digits)) |->
        "JO" \o current_side \o fingers[((k - 1) \div Len(digits)) + 1]
             \o digits[((k - 1) % Len(digits)) + 1] \o "1"]
limb_joints(current_side) == <<"JO" \o current_side \o "Elbow1", "JO" \o current_side \o "Knee1">>
SideCatalog(current_side, fingers, include_limbs) ==
    FingerCatalog(current_side, fingers)
        \o (IF include_limbs THEN limb_joints(current_side) ELSE <<>>)
RECURSIVE Catalog(_, _, _)
Catalog(sides, fingers, include_limbs) ==
    IF sides = <<>> THEN <<>>
    ELSE SideCatalog(Head(sides), fingers, include_limbs)
             \o Catalog(Tail(sides), fingers, include_limbs)

\* the locals of the batch before the loops: the scene, created_joints,
\* the two counts, and the attempts made with how each ended
BatchStart(x) ==
    [x |-> x, created_joints |-> <<>>, success_count |-> 0, fail_count |-> 0,
     attempts |-> <<>>]

\* the body of the loops for one joint, left at the first failure
AttemptFailFast(b, jnt, weight, driver_axis, distance_axis, matchAvg, matchPush) ==
    IF ~cmdsObjExists(b.x, jnt) \/ b.fail_count > 0 THEN b
    ELSE LET y == createAvgPushJointForFinger(b.x, jnt, weight, driver_axis, distance_axis,
                                              TRUE, matchAvg, matchPush)
         IN  IF Ok(y)
             THEN [b EXCEPT !.x = y,
                            !.created_joints = (jnt :> y.py["return"]) @@ @,
                            !.success_count = @ + 1,
                            !.attempts = Append(@, [jnt |-> jnt, err |-> "none"])]
             ELSE [b EXCEPT !.x = [y EXCEPT !.err = "none"],
                            !.fail_count = @ + 1,
                            !.attempts = Append(@, [jnt |-> jnt, err |-> y.err])]

\* the body of the loops for one joint: if cmds.objExists(jnt): try: ...
\* created_joints[jnt] = ...; success_count += 1
\* except Exception: fail_count += 1
Attempt(b, jnt, weight, driver_axis, distance_axis, matchAvg, matchPush) ==
    IF ~cmdsObjExists(b.x, jnt) THEN b
    ELSE LET y == createAvgPushJointForFinger(b.x, jnt, weight, driver_axis, distance_axis,
                                              TRUE, matchAvg, matchPush)
         IN  IF Ok(y)
             THEN [b EXCEPT !.x = y,
                            !.created_joints = (jnt :> y.py["return"]) @@ @,
                            !.success_count = @ + 1,
                            !.attempts = Append(@, [jnt |-> jnt, err |-> "none"])]
             ELSE [b EXCEPT !.x = [y EXCEPT !.err = "none"],
                            !.fail_count = @ + 1,
                            !.attempts = Append(@, [jnt |-> jnt, err |-> y.err])]

\* the loops: the body for joints[lo] .. joints[hi], one after the other; a
\* range of several joints is run as its first half followed by its second
RECURSIVE AttemptEach(_, _, _, _, _, _, _, _, _)
AttemptEach(b, joints, lo, hi, weight, driver_axis, distance_axis, matchAvg, matchPush) ==
    IF lo > hi THEN b
    ELSE IF lo = hi
    THEN Attempt(b, joints[lo], weight, driver_axis, distance_axis, matchAvg, matchPush)
    ELSE Result({AttemptEach(y, joints, ((lo + hi) \div 2) + 1, hi, weight, driver_axis,
                             distance_axis, matchAvg, matchPush) :
                    y \in {AttemptEach(b, joints, lo, (lo + hi) \div 2, weight,
                                       driver_axis, distance_axis, matchAvg, matchPush)}})

\* batchCreateAllAvgPush(side, fingers, weight, driver_axis, distance_axis,
\* include_limbs=include_limbs); matchAvg and matchPush are what the host
\* finds for the calls of cmds.xform
batchCreateAllAvgPush(x, side, fingers, weight, driver_axis, distance_axis, include_limbs, matchAvg, matchPush) ==
    Result({AttemptEach(BatchStart(x), joints, 1, Len(joints), weight, driver_axis,
                        distance_axis, matchAvg, matchPush) :
               joints \in {Catalog(SidesToProcess(side), fingers, include_limbs)}})

\* the calls of the batch made one after the other on a scene
MaxBatches == 2
BatchSides == {"Left", "Right", "Both"}
FingerLists == {DefaultFingers, <<"Thumb">>}

\* a call of the batch
BatchCreateAllAvgPush ==
    \E side \in BatchSides, fingers \in FingerLists, weight \in Weights,
       distance_axis \in DistanceAxes, include_limbs \in BOOLEAN,
       matchAvg \in AvgMatches, matchPush \in PushMatches :
        LET n == IF ret.op = "start" THEN 0 ELSE ret.n
        IN  /\ ret.op \in {"start", "batchCreateAllAvgPush"}
            /\ n < MaxBatches
            /\ \E b \in {batchCreateAllAvgPush(av, side, fingers, weight, "z",
                                                distance_axis, include_limbs, matchAvg,
                                                matchPush)} :
                /\ av' = [b.x EXCEPT !.py = <<>>, !.ev = <<>>, !.err = "none"]
                /\ ret' = [op |-> "batchCreateAllAvgPush", n |-> n + 1,
                           catalog |-> Catalog(SidesToProcess(side), fingers,
                                               include_limbs),
                           existed |-> av.nodes,
                           attempts |-> b.attempts,
                           success_count |-> b.success_count,
                           fail_count |-> b.fail_count,
                           err |-> "none", value |-> b.created_joints]
                /\ UNCHANGED <<rigVars, rb, tp>>

NextBatch == BatchCreateAllAvgPush
SpecBatch == Init /\ [][NextBatch]_vars

\* the catalog joints that were in the scene when the batch was called, in
\* the order of the catalog
Existing == SelectSeq(ret.catalog, LAMBDA j : j \in ret.existed)
Succeeded == {ret.attempts[i].jnt : i \in {k \in 1..Len(ret.attempts) : ret.attempts[k].err = "none"}}

\* C22: batchCreateAllAvgPush attempts every catalog joint that is in the
\* scene whatever happened to the joints before it, returns a mapping whose
\* keys are exactly the joints whose call succeeded, and counts every
\* attempt once as a success or as a failure.
C22_Batch ==
    ret.op = "batchCreateAllAvgPush"
        => /\ [i \in 1..Len(ret.attempts) |-> ret.attempts[i].jnt] = Existing
           /\ DOMAIN ret.value = Succeeded
           /\ ret.success_count + ret.fail_count = Len(Existing)
           /\ ret.success_count = Cardinality(Succeeded)

\* a batch in which a joint failed and a later joint was made
C22_Witness ==
    /\ ret.op = "batchCreateAllAvgPush"
    /\ \E i, k \in 1..Len(ret.attempts) :
           /\ i < k
           /\ ret.attempts[i].err # "none"
           /\ ret.attempts[k].err = "none"
           /\ ret.attempts[k].jnt \in DOMAIN ret.value

====
